---- MODULE Spec2Model ----
(***************************************************************************)
(* Model of the healthcare newsletter system: the validation core          *)
(* (src/security_utils.py: SecurityValidator, SecureFileHandler,           *)
(* SecureHTTPClient, RateLimiter), the key registry of ScraperManager      *)
(* (src/website_scrapers.py), save_newsletter, collect_articles and        *)
(* load_config of NewsletterGenerator (src/newsletter_generator.py) and    *)
(* the construction of NewsletterScheduler (src/scheduler.py).             *)
(*                                                                         *)
(* A Python str is a sequence of one-character strings.  A Python value    *)
(* is a record tagged by its type: [ty |-> "str", s |-> <<...>>],          *)
(* [ty |-> "int", n |-> 5], [ty |-> "list", items |-> <<...>>],            *)
(* [ty |-> "none"].  A call's outcome is [ok |-> TRUE, val |-> v] or       *)
(* [ok |-> FALSE, exc |-> exception class, err |-> message].               *)
(***************************************************************************)
EXTENDS Integers, Sequences, FiniteSets, TLC

VARIABLES
    url_arg, url_ret,          \* validate_url: last argument and outcome
    fn_arg, fn_base, fn_ret,   \* validate_filename: last argument, its base_dir, and outcome
    html_arg, html_ret,        \* sanitize_html: last argument and returned text
    email_arg, email_ret,      \* sanitize_email: last argument and outcome
    fs, base_exists, outside,  \* the base directory's entries, whether it exists, a file outside it
    file_call,                 \* SecureFileHandler: last call
    requests, now, rl_call,    \* RateLimiter: self.requests, time.time(), last call
    calls,                     \* history: per identifier, the calls since its window opened
    admitted,                  \* history: per identifier and time, the calls that returned True
    http_arg, http_call,       \* SecureHTTPClient.safe_get: arguments with the server's answer, last call
    cfg_arg, cfg_ret, cfg_log, \* validate_json_config: last argument, outcome, keys warned about
    threads, mutex, window_lost, \* callers inside is_allowed, the caller-side lock, a window was discarded
    writer, reader,            \* a safe_write_file and a safe_read_file call under way on one file
    save_arg, save_call,       \* NewsletterGenerator.save_newsletter: arguments, last call
    collect_arg, collect_call, \* NewsletterGenerator.collect_articles: configuration and scrapers, last call
    sched_arg, sched_call      \* NewsletterScheduler(config_path): the environment, last construction

urlVars   == <<url_arg, url_ret>>
fnVars    == <<fn_arg, fn_base, fn_ret>>
htmlVars  == <<html_arg, html_ret>>
emailVars == <<email_arg, email_ret>>
fileVars  == <<fs, base_exists, outside, file_call>>
rateVars  == <<requests, now, rl_call, calls, admitted>>
httpVars  == <<http_arg, http_call>>
cfgVars   == <<cfg_arg, cfg_ret, cfg_log>>
raceVars  == <<threads, mutex, window_lost>>
ioVars    == <<writer, reader>>
saveVars  == <<save_arg, save_call>>
collectVars == <<collect_arg, collect_call>>
schedVars == <<sched_arg, sched_call>>
appVars   == <<saveVars, collectVars, schedVars>>
vars == <<url_arg, url_ret, fn_arg, fn_base, fn_ret, html_arg, html_ret, email_arg, email_ret,
          fs, base_exists, outside, file_call, requests, now, rl_call, calls, admitted, http_arg, http_call,
          cfg_arg, cfg_ret, cfg_log, threads, mutex, window_lost, writer, reader,
          save_arg, save_call, collect_arg, collect_call, sched_arg, sched_call>>

-----------------------------------------------------------------------------
(* Characters and strings                                                  *)

UpperSeq == <<"A","B","C","D","E","F","G","H","I","J","K","L","M",
              "N","O","P","Q","R","S","T","U","V","W","X","Y","Z">>
LowerSeq == <<"a","b","c","d","e","f","g","h","i","j","k","l","m",
              "n","o","p","q","r","s","t","u","v","w","x","y","z">>
Upper == {UpperSeq[i] : i \in 1..Len(UpperSeq)}
Lower == {LowerSeq[i] : i \in 1..Len(LowerSeq)}
Digit == {"0","1","2","3","4","5","6","7","8","9"}

\* str.isspace() characters that the model's inputs use
Whitespace == {" ", "\t", "\n", "\r", "\f"}

\* str.lower() / str.upper() on one character
ToLower(c) == IF c \in Upper THEN LowerSeq[CHOOSE i \in 1..Len(UpperSeq) : UpperSeq[i] = c] ELSE c
ToUpper(c) == IF c \in Lower THEN UpperSeq[CHOOSE i \in 1..Len(LowerSeq) : LowerSeq[i] = c] ELSE c

StrLower(s) == [i \in 1..Len(s) |-> ToLower(s[i])]

Min(a, b) == IF a < b THEN a ELSE b

\* str.strip(): drop leading and trailing whitespace
Strip(s) ==
    LET keep == {i \in 1..Len(s) : s[i] \notin Whitespace}
    IN  IF keep = {} THEN <<>>
        ELSE LET lo == CHOOSE i \in keep : \A j \in keep : i <= j
                 hi == CHOOSE i \in keep : \A j \in keep : i >= j
             IN  SubSeq(s, lo, hi)

\* str.startswith(prefix), case-sensitive
StartsWith(s, prefix) ==
    /\ Len(prefix) <= Len(s)
    /\ \A i \in 1..Len(prefix) : s[i] = prefix[i]

\* `sub in s`
Contains(s, sub) ==
    \E i \in 1..(Len(s) - Len(sub) + 1) : \A j \in 1..Len(sub) : s[i + j - 1] = sub[j]

\* a string of n copies of character c
Repeat(c, n) == [i \in 1..n |-> c]

\* all strings over alphabet A of length at most n
StringsUpTo(A, n) == UNION {[1..k -> A] : k \in 0..n}

PyStr(s) == [ty |-> "str", s |-> s]
PyNone == [ty |-> "none"]
PyInt(n) == [ty |-> "int", n |-> n]
PyList(items) == [ty |-> "list", items |-> items]

Ok(v) == [ok |-> TRUE, val |-> v]
Raise(exc, msg) == [ok |-> FALSE, exc |-> exc, err |-> msg]
SecurityError(msg) == Raise("SecurityError", msg)
NoCall == [op |-> "none", ok |-> FALSE, exc |-> "none", err |-> "no call yet"]

-----------------------------------------------------------------------------
(* Regular expressions (Python re.match on a compiled pattern).            *)
(* A pattern is a tree of nodes; Ends(re, s, p) is the set of positions    *)
(* at which a match of re that starts at position p of s can end.          *)

Lit(s, ic)          == [t |-> "lit", s |-> s, ic |-> ic]
Cls(cs, lo, hi, ic) == [t |-> "cls", cs |-> cs, neg |-> FALSE, min |-> lo, max |-> hi, ic |-> ic]
NotCls(cs, lo, hi)  == [t |-> "cls", cs |-> cs, neg |-> TRUE, min |-> lo, max |-> hi, ic |-> FALSE]
Cat(rs)             == [t |-> "seq", rs |-> rs]
Alt(rs)             == [t |-> "alt", rs |-> rs]
Opt(r)              == [t |-> "opt", r |-> r]
Plus(r)             == [t |-> "plus", r |-> r]
EndAnchor           == [t |-> "end"]
Unbounded           == -1

CharEq(c, d, ic) == IF ic THEN ToLower(c) = ToLower(d) ELSE c = d

InCls(c, re) ==
    LET hit == IF re.ic THEN ToLower(c) \in re.cs \/ ToUpper(c) \in re.cs ELSE c \in re.cs
    IN  IF re.neg THEN ~hit ELSE hit

RECURSIVE Ends(_, _, _), SeqEnds(_, _, _, _), PlusEnds(_, _, _, _)
Ends(re, s, p) ==
    CASE re.t = "lit" ->
            IF /\ p + Len(re.s) - 1 <= Len(s)
               /\ \A i \in 1..Len(re.s) : CharEq(s[p + i - 1], re.s[i], re.ic)
            THEN {p + Len(re.s)} ELSE {}
      [] re.t = "cls" ->
            LET last == IF re.max = Unbounded THEN Len(s) + 1
                        ELSE Min(Len(s) + 1, p + re.max)
            IN  {q \in (p + re.min)..last : \A i \in p..(q - 1) : InCls(s[i], re)}
      [] re.t = "seq" -> SeqEnds(re.rs, 1, s, {p})
      [] re.t = "alt" -> UNION {Ends(re.rs[i], s, p) : i \in 1..Len(re.rs)}
      [] re.t = "opt" -> {p} \cup Ends(re.r, s, p)
      [] re.t = "plus" -> PlusEnds(re.r, s, Ends(re.r, s, p), {})
      \* $ matches at the end and just before a newline that ends the string
      [] re.t = "end" ->
            IF p = Len(s) + 1 \/ (p = Len(s) /\ s[p] = "\n") THEN {p} ELSE {}
SeqEnds(rs, i, s, P) ==
    IF i > Len(rs) \/ P = {} THEN P
    ELSE SeqEnds(rs, i + 1, s, UNION {Ends(rs[i], s, p) : p \in P})
PlusEnds(r, s, frontier, acc) ==
    IF frontier \subseteq acc THEN acc
    ELSE PlusEnds(r, s, UNION {Ends(r, s, p) : p \in frontier \ acc}, acc \cup frontier)

\* pattern.match(s): a match anchored at the start of s
ReMatch(re, s) == Ends(re, s, 1) # {}

-----------------------------------------------------------------------------
(* SecurityValidator.validate_url                                          *)

S_http_     == <<"h","t","t","p">>
S_http      == <<"h","t","t","p",":","/","/">>
S_https     == <<"h","t","t","p","s",":","/","/">>
S_localhost == <<"l","o","c","a","l","h","o","s","t">>
S_a_aa      == <<"a",".","a","a">>

MAX_URL_LENGTH == 2000

\* (?:[A-Z0-9](?:[A-Z0-9-]{0,61}[A-Z0-9])?\.)+[A-Z]{2,6}\.?
UrlDomain ==
    Cat(<< Plus(Cat(<< Cls(Upper \cup Digit, 1, 1, TRUE),
                       Opt(Cat(<< Cls(Upper \cup Digit \cup {"-"}, 0, 61, TRUE),
                                  Cls(Upper \cup Digit, 1, 1, TRUE) >>)),
                       Lit(<<".">>, TRUE) >>)),
           Cls(Upper, 2, 6, TRUE),
           Cls({"."}, 0, 1, TRUE) >>)

\* \d{1,3}\.\d{1,3}\.\d{1,3}\.\d{1,3}
UrlIPv4 ==
    Cat(<< Cls(Digit, 1, 3, TRUE), Lit(<<".">>, TRUE), Cls(Digit, 1, 3, TRUE), Lit(<<".">>, TRUE),
           Cls(Digit, 1, 3, TRUE), Lit(<<".">>, TRUE), Cls(Digit, 1, 3, TRUE) >>)

\* ^https?://(?:domain|localhost|ipv4)(?::\d+)?(?:/?|[/?]\S+)$ with re.IGNORECASE
SAFE_URL_PATTERN ==
    Cat(<< Lit(<<"h","t","t","p">>, TRUE), Cls({"s"}, 0, 1, TRUE), Lit(<<":","/","/">>, TRUE),
           Alt(<< UrlDomain, Lit(S_localhost, TRUE), UrlIPv4 >>),
           Opt(Cat(<< Lit(<<":">>, TRUE), Cls(Digit, 1, Unbounded, TRUE) >>)),
           Alt(<< Cls({"/"}, 0, 1, TRUE),
                  Cat(<< Cls({"/", "?"}, 1, 1, TRUE), NotCls(Whitespace, 1, Unbounded) >>) >>),
           EndAnchor >>)

\* the scheme test of validate_url, on the stripped url
SchemeAllowed(url) ==
    StartsWith(url, S_https) \/ StartsWith(url, S_http \o S_localhost)

\* variants of validate_url: one that completes a URL with a final slash, one
\* that tests the format before the length
MutValidateUrlAddsSlash(v) ==
    IF v.ty # "str" THEN SecurityError("URL must be a string")
    ELSE LET url == Strip(v.s)
         IN  IF Len(url) > MAX_URL_LENGTH THEN SecurityError("URL too long")
             ELSE IF ~ReMatch(SAFE_URL_PATTERN, url) THEN SecurityError("Invalid URL format")
             ELSE IF ~SchemeAllowed(url)
                  THEN SecurityError("Only HTTPS URLs are allowed for external sites")
             ELSE Ok(IF url[Len(url)] = "/" THEN url ELSE url \o <<"/">>)
MutValidateUrlFormatFirst(v) ==
    IF v.ty # "str" THEN SecurityError("URL must be a string")
    ELSE LET url == Strip(v.s)
         IN  IF ~ReMatch(SAFE_URL_PATTERN, url) THEN SecurityError("Invalid URL format")
             ELSE IF Len(url) > MAX_URL_LENGTH THEN SecurityError("URL too long")
             ELSE IF ~SchemeAllowed(url)
                  THEN SecurityError("Only HTTPS URLs are allowed for external sites")
             ELSE Ok(url)

validate_url(v) ==
    IF v.ty # "str" THEN SecurityError("URL must be a string")
    ELSE LET url == Strip(v.s)
         IN  IF Len(url) > MAX_URL_LENGTH THEN SecurityError("URL too long")
             ELSE IF ~ReMatch(SAFE_URL_PATTERN, url) THEN SecurityError("Invalid URL format")
             ELSE IF ~SchemeAllowed(url)
                  THEN SecurityError("Only HTTPS URLs are allowed for external sites")
             ELSE Ok(url)

\* Inputs: a scheme-and-host prefix followed by every tail over a small alphabet,
\* and URLs around the length limit
MaxUrlTail == 3
UrlTailChars == {"a", "1", ".", ":", "/"}
UrlPrefixes == { S_https, S_http, S_http \o S_localhost, S_https \o S_localhost,
                 <<"H","T","T","P","S",":","/","/">>,
                 <<"f","t","p",":","/","/">>,
                 <<" ">> \o S_https \o <<"a",".","a","a">>,
                 S_https \o S_a_aa,
                 <<"j","a","v","a","s","c","r","i","p","t",":">>, <<"f","i","l","e",":","/","/","/">>,
                 <<"d","a","t","a",":">>, <<"m","a","i","l","t","o",":">> }
LongUrls ==
    {pre \o Repeat("a", n - Len(pre)) \o post :
        pre \in {S_https \o S_a_aa \o <<"/">>, <<"f","t","p",":","/","/">>, <<"a">>},
        post \in {<<>>, <<"\n">>},
        n \in {MAX_URL_LENGTH, MAX_URL_LENGTH + 1}}
UrlStrings ==
    {p \o t : p \in UrlPrefixes, t \in StringsUpTo(UrlTailChars, MaxUrlTail)} \cup LongUrls
UrlArgs == {PyStr(s) : s \in UrlStrings} \cup {PyNone, PyInt(1)}

\* one call validate_url(url_arg)
ValidateUrl ==
    /\ url_ret = NoCall
    /\ url_ret' = validate_url(url_arg)
    /\ UNCHANGED <<url_arg, fnVars, htmlVars, emailVars, fileVars, rateVars, httpVars, cfgVars, raceVars, ioVars, appVars>>

-----------------------------------------------------------------------------
(* SecurityValidator.validate_filename                                     *)

ALLOWED_EXTENSIONS ==
    { <<".","j","s","o","n">>, <<".","m","d">>, <<".","t","x","t">>, <<".","l","o","g">> }
MAX_FILENAME_LENGTH == 255

\* ^[a-zA-Z0-9_.-]+$
SAFE_FILENAME_PATTERN ==
    Cat(<< Cls(Lower \cup Upper \cup Digit \cup {"_", ".", "-"}, 1, Unbounded, FALSE),
           EndAnchor >>)

\* '..' in filename or '/' in filename or '\\' in filename
MutHasTraversalNoBackslash(filename) ==
    Contains(filename, <<".", ".">>) \/ Contains(filename, <<"/">>)
HasTraversal(filename) ==
    \/ Contains(filename, <<".", ".">>)
    \/ Contains(filename, <<"/">>)
    \/ Contains(filename, <<"\\">>)

\* Path(filename).suffix for a filename without separators: the text from the
\* last dot, unless that dot is the first or the last character
PathSuffix(filename) ==
    LET name == IF filename = <<".">> THEN <<>> ELSE filename
        dots == {i \in 1..Len(name) : name[i] = "."}
        i    == IF dots = {} THEN 0 ELSE CHOOSE k \in dots : \A j \in dots : k >= j
    IN  IF 1 < i /\ i < Len(name) THEN SubSeq(name, i, Len(name)) ELSE <<>>

\* A path is [root |-> "base", name |-> n] (the entry n of the base directory)
\* or [root |-> "outside", name |-> OUTSIDE]; root "loop" marks a symlink loop.
OUTSIDE == <<"/","e","t","c","/","p","a","s","s","w","d">>
InBase(n) == [root |-> "base", name |-> n]

\* follow the symbolic links of directory d from entry n
RECURSIVE FollowLinks(_, _, _)
FollowLinks(d, n, fuel) ==
    IF fuel = 0 THEN [root |-> "loop", name |-> n]
    ELSE IF n \in DOMAIN d /\ d[n].kind = "link"
         THEN IF d[n].to = OUTSIDE THEN [root |-> "outside", name |-> OUTSIDE]
              ELSE FollowLinks(d, d[n].to, fuel - 1)
         ELSE InBase(n)

\* (Path(base_dir) / filename).resolve()
MutResolveNoFollow(d, filename) == InBase(filename)
Resolve(d, filename) == FollowLinks(d, filename, Cardinality(DOMAIN d) + 1)

NoBaseDir == [given |-> FALSE]
BaseDir(d) == [given |-> TRUE, dirents |-> d]

validate_filename(v, base_dir) ==
    IF v.ty # "str" THEN SecurityError("Filename must be a string")
    ELSE LET filename == Strip(v.s)
         IN  IF filename = <<>> THEN SecurityError("Filename cannot be empty")
             ELSE IF Len(filename) > MAX_FILENAME_LENGTH THEN SecurityError("Filename too long")
             ELSE IF HasTraversal(filename)
                  THEN SecurityError("Path traversal detected in filename")
             ELSE IF ~ReMatch(SAFE_FILENAME_PATTERN, filename)
                  THEN SecurityError("Invalid filename format")
             ELSE IF StrLower(PathSuffix(filename)) \notin ALLOWED_EXTENSIONS
                  THEN SecurityError("File extension not allowed")
             ELSE IF base_dir.given
                  THEN LET full_path == Resolve(base_dir.dirents, filename)
                       IN  IF full_path.root = "loop" THEN Raise("RuntimeError", "Symlink loop")
                           ELSE IF full_path.root # "base"
                                THEN SecurityError("Path traversal detected")
                           ELSE Ok(filename)
             ELSE Ok(filename)

\* Inputs: every string over a small alphabet, and names around the length limit
MaxFilenameLen == 4
FilenameChars == {"a", ".", "m", "d", "/", "\\", " "}
S_md == <<".","m","d">>
LongFilenames ==
    {pre \o Repeat("a", n) \o S_md : pre \in {<<>>, <<"/">>, <<".", ".">>, <<"\\">>, <<";">>},
                                     n \in 250..253}
S_con_txt == <<"c","o","n",".","t","x","t">>
TestFilenames ==
    { <<"n","e","w","s","l","e","t","t","e","r",".","m","d">>, <<"t","e","s","t","_","f","i","l","e",".","t","x","t">>,
      <<"t","e","s","t",".","p","h","p">>, S_con_txt,
      <<".",".","/",".",".","/",".",".","/","e","t","c","/","p","a","s","s","w","d">>,
      <<"t","e","s","t","\n","f","i","l","e",".","t","x","t">>,
      <<"t","e","s","t",";","r","m"," ","-","r","f",".","t","x","t">>,
      Repeat("x", 300) }
FilenameArgs ==
    {PyStr(s) : s \in StringsUpTo(FilenameChars, MaxFilenameLen) \cup LongFilenames
                        \cup TestFilenames}
        \cup {PyNone}
\* no base_dir, or a directory without symbolic links
FilenameBaseDirs == {NoBaseDir, BaseDir(<<>>)}

\* one call validate_filename(fn_arg, fn_base)
ValidateFilename ==
    /\ fn_ret = NoCall
    /\ fn_ret' = validate_filename(fn_arg, fn_base)
    /\ UNCHANGED <<fn_arg, fn_base, urlVars, htmlVars, emailVars, fileVars, rateVars, httpVars, cfgVars, raceVars, ioVars, appVars>>

-----------------------------------------------------------------------------
(* SecurityValidator.sanitize_html                                         *)

DigitSeq == <<"0","1","2","3","4","5","6","7","8","9">>

\* str(n) for an int
RECURSIVE NatStr(_)
NatStr(n) == IF n < 10 THEN <<DigitSeq[n + 1]>> ELSE NatStr(n \div 10) \o <<DigitSeq[(n % 10) + 1]>>
IntStr(n) == IF n < 0 THEN <<"-">> \o NatStr(-n) ELSE NatStr(n)

\* s with every character c replaced by the string f[c] (c itself outside DOMAIN f)
RECURSIVE MapChars(_, _)
MapChars(s, f) ==
    IF s = <<>> THEN <<>>
    ELSE (IF s[1] \in DOMAIN f THEN f[s[1]] ELSE <<s[1]>>) \o MapChars(Tail(s), f)

\* repr(s) of a str: single quotes, unless s holds a single and no double quote
ReprStr(s) ==
    LET single == \E i \in 1..Len(s) : s[i] = "'"
        double == \E i \in 1..Len(s) : s[i] = "\""
        common == [c \in {"\\", "\n", "\r", "\t"} |->
                     CASE c = "\\" -> <<"\\", "\\">> [] c = "\n" -> <<"\\", "n">>
                       [] c = "\r" -> <<"\\", "r">>  [] c = "\t" -> <<"\\", "t">>]
    IN  IF single /\ ~double THEN <<"\"">> \o MapChars(s, common) \o <<"\"">>
        ELSE <<"'">> \o MapChars(s, common @@ ("'" :> <<"\\", "'">>)) \o <<"'">>

\* repr of a list of str
RECURSIVE ReprItems(_)
ReprItems(items) ==
    IF items = <<>> THEN <<>>
    ELSE ReprStr(items[1].s)
           \o (IF Len(items) > 1 THEN <<",", " ">> ELSE <<>>) \o ReprItems(Tail(items))

\* str(v)
PyStrOf(v) ==
    CASE v.ty = "str"  -> v.s
      [] v.ty = "none" -> <<"N","o","n","e">>
      [] v.ty = "int"  -> IntStr(v.n)
      [] v.ty = "list" -> <<"[">> \o ReprItems(v.items) \o <<"]">>

\* html.escape(s, quote=True)
HtmlEntity ==
    ("&"  :> <<"&","a","m","p",";">>) @@ ("<" :> <<"&","l","t",";">>)
      @@ (">" :> <<"&","g","t",";">>) @@ ("\"" :> <<"&","q","u","o","t",";">>)
      @@ ("'" :> <<"&","#","x","2","7",";">>)
html_escape(s) == MapChars(s, HtmlEntity)

sanitize_html(content) ==
    IF content.ty # "str" THEN Ok(PyStrOf(content))
    ELSE Ok(html_escape(content.s))

MaxHtmlLen == 3
HtmlChars == {"<", ">", "&", "\"", "'", "a"}
S_script == <<"<","s","c","r","i","p","t",">">>
HtmlStrings ==
    StringsUpTo(HtmlChars, MaxHtmlLen)
      \cup {S_script \o <<"a">> \o <<"<","/","s","c","r","i","p","t",">">>}
HtmlArgs ==
    {PyStr(s) : s \in HtmlStrings}
      \cup {PyList(<<PyStr(s)>>) : s \in StringsUpTo(HtmlChars, MaxHtmlLen - 1) \cup {S_script}}
      \cup {PyNone, PyInt(5), PyInt(-12), PyList(<<>>), PyList(<<PyStr(<<"a">>), PyStr(<<"<">>)>>)}

\* one call sanitize_html(html_arg)
SanitizeHtml ==
    /\ html_ret = NoCall
    /\ html_ret' = sanitize_html(html_arg)
    /\ UNCHANGED <<html_arg, urlVars, fnVars, emailVars, fileVars, rateVars, httpVars, cfgVars, raceVars, ioVars, appVars>>

-----------------------------------------------------------------------------
(* SecurityValidator.sanitize_email                                        *)

MAX_EMAIL_LENGTH == 254

\* ^[^@]+@[^@]+\.[a-zA-Z]{2,}$
MutEmailPatternLoose ==
    Cat(<< NotCls({"@"}, 1, Unbounded), Lit(<<"@">>, FALSE), NotCls({"@"}, 1, Unbounded),
           Lit(<<".">>, FALSE), Cls(Lower \cup Upper, 2, Unbounded, FALSE), EndAnchor >>)
\* ^[a-zA-Z0-9._%+-]+@[a-zA-Z0-9.-]+\.[a-zA-Z]{2,}$
email_pattern ==
    Cat(<< Cls(Lower \cup Upper \cup Digit \cup {".", "_", "%", "+", "-"}, 1, Unbounded, FALSE),
           Lit(<<"@">>, FALSE),
           Cls(Lower \cup Upper \cup Digit \cup {".", "-"}, 1, Unbounded, FALSE),
           Lit(<<".">>, FALSE),
           Cls(Lower \cup Upper, 2, Unbounded, FALSE),
           EndAnchor >>)

sanitize_email(v) ==
    IF v.ty # "str" THEN SecurityError("Email must be a string")
    ELSE LET email == StrLower(Strip(v.s))
         IN  IF ~ReMatch(email_pattern, email) THEN SecurityError("Invalid email format")
             ELSE IF Len(email) > MAX_EMAIL_LENGTH THEN SecurityError("Email address too long")
             ELSE Ok(email)

\* Inputs: a prefix, every middle over a small alphabet, a suffix; the examples
\* of the tests; addresses around the length limit
MaxEmailMid == 2
EmailChars == {"a", "A", "@", ".", "\n", " "}
S_at_b_co == <<"@","b",".","c","o">>
S_injection ==
    <<"t","e","s","t","@","e","x","a","m","p","l","e",".","c","o","m","\n",
      "B","C","C",":"," ","x","@","y",".","c","o","m">>
S_UserTag ==
    <<"U","s","e","r","+","T","a","g","@","D","o","m","a","i","n",".","C","O",".","U","K">>
S_usertag ==
    <<"u","s","e","r","+","t","a","g","@","d","o","m","a","i","n",".","c","o",".","u","k">>
EmailPrefixes == {<<>>, <<"a">>, <<"U","+">>, <<" ","a">>, <<"\n","a">>}
EmailSuffixes == {<<>>, <<".","a","a">>, S_at_b_co, S_at_b_co \o <<"\n">>,
                  S_at_b_co \o <<"\r","\n","B","@","c",".","d","e">>, <<".","C","O",".","U","K"," ">>}
EmailStrings ==
    {pre \o mid \o suf : pre \in EmailPrefixes, mid \in StringsUpTo(EmailChars, MaxEmailMid),
                         suf \in EmailSuffixes}
      \cup {S_injection, S_UserTag}
      \cup {Repeat("x", n) \o S_at_b_co : n \in 248..251}
EmailArgs == {PyStr(s) : s \in EmailStrings} \cup {PyNone}

\* one call sanitize_email(email_arg)
SanitizeEmail ==
    /\ email_ret = NoCall
    /\ email_ret' = sanitize_email(email_arg)
    /\ UNCHANGED <<email_arg, urlVars, fnVars, htmlVars, fileVars, rateVars, httpVars, cfgVars, raceVars, ioVars, appVars>>

-----------------------------------------------------------------------------
(* SecureFileHandler.  A str written or read is [body |-> characters, pad |-> n]: *)
(* the characters followed by n times "x"; a file's bytes are [body |-> bytes,    *)
(* pad |-> n] likewise.  The character "U+00E9" takes two bytes in UTF-8.         *)

MAX_CONTENT_SIZE == 10485760

Text(body, pad) == [body |-> body, pad |-> pad]

\* os.linesep (POSIX)
os_linesep == <<"\n">>

Utf8Bytes == ("U+00E9" :> <<"0xC3", "0xA9">>)
\* s.encode('utf-8')
Utf8Encode(s) == MapChars(s, Utf8Bytes)

\* bytes.decode('utf-8'): [ok |-> FALSE] stands for UnicodeDecodeError
RECURSIVE Utf8Decode(_)
Utf8Decode(b) ==
    IF b = <<>> THEN [ok |-> TRUE, s |-> <<>>]
    ELSE IF b[1] = "0xC3"
         THEN IF Len(b) >= 2 /\ b[2] = "0xA9"
              THEN LET rest == Utf8Decode(SubSeq(b, 3, Len(b)))
                   IN  IF rest.ok THEN [ok |-> TRUE, s |-> <<"U+00E9">> \o rest.s] ELSE rest
              ELSE [ok |-> FALSE]
         ELSE IF b[1] \in {"0xA9", "0xFF"} THEN [ok |-> FALSE]
         ELSE LET rest == Utf8Decode(Tail(b))
              IN  IF rest.ok THEN [ok |-> TRUE, s |-> <<b[1]>> \o rest.s] ELSE rest

\* len(content.encode('utf-8'))
ByteLen(content) == Len(Utf8Encode(content.body)) + content.pad

\* text-mode write (newline=None): "\n" becomes os.linesep
TranslateOnWrite(s) == MapChars(s, ("\n" :> os_linesep))

\* text-mode read (newline=None): "\r\n" and "\r" become "\n"
RECURSIVE UniversalNewlines(_)
UniversalNewlines(s) ==
    IF s = <<>> THEN <<>>
    ELSE IF s[1] = "\r"
         THEN <<"\n">> \o UniversalNewlines(IF Len(s) >= 2 /\ s[2] = "\n"
                                            THEN SubSeq(s, 3, Len(s)) ELSE Tail(s))
         ELSE <<s[1]>> \o UniversalNewlines(Tail(s))

\* max_size or SecurityValidator.MAX_CONTENT_SIZE
EffectiveMax(max_size) ==
    IF max_size.ty = "none" \/ max_size.n = 0 THEN MAX_CONTENT_SIZE ELSE max_size.n

\* where the operating system ends up when it opens entry n of directory d
OsTarget(d, n) == FollowLinks(d, n, Cardinality(DOMAIN d) + 1)

\* The world a call runs in, and what a call does to it
World(d, be, out) == [fs |-> d, base_exists |-> be, outside |-> out]
Effect(ret, opened, made_dir, w) ==
    [ret |-> ret, opened |-> opened, made_dir |-> made_dir, world |-> w]

\* lines 187-192: open(file_path, 'r', encoding='utf-8') and f.read()
ReadText(w, file_path) ==
    LET data == IF file_path.root = "outside" THEN w.outside ELSE w.fs[file_path.name].data
        decoded == Utf8Decode(data.body)
    IN  IF ~decoded.ok THEN SecurityError("File contains invalid UTF-8 characters")
        ELSE Ok(Text(UniversalNewlines(decoded.s), data.pad))

safe_read_file(w, filename, max_size) ==
    LET validated == validate_filename(filename, BaseDir(w.fs))
    IN  IF ~validated.ok THEN Effect(validated, {}, FALSE, w)
        ELSE
        LET file_path == OsTarget(w.fs, validated.val)
            exists == \/ file_path.root = "outside"
                      \/ (file_path.root = "base" /\ file_path.name \in DOMAIN w.fs)
            entry == IF file_path.root = "outside" THEN [kind |-> "file", data |-> w.outside]
                     ELSE w.fs[file_path.name]
        IN  IF ~exists THEN Effect(SecurityError("File not found"), {}, FALSE, w)
            ELSE IF entry.kind # "file"
                 THEN Effect(SecurityError("Path is not a file"), {}, FALSE, w)
            ELSE IF Len(entry.data.body) + entry.data.pad > EffectiveMax(max_size)
                 THEN Effect(SecurityError("File too large"), {}, FALSE, w)
            ELSE Effect(ReadText(w, file_path), {file_path}, FALSE, w)

safe_write_file(w, filename, content, max_size) ==
    LET validated == validate_filename(filename, BaseDir(w.fs))
    IN  IF ~validated.ok THEN Effect(validated, {}, FALSE, w)
        ELSE IF ByteLen(content) > EffectiveMax(max_size)
             THEN Effect(SecurityError("Content too large"), {}, FALSE, w)
        ELSE
        LET made == ~w.base_exists     \* file_path.parent.mkdir(parents=True, exist_ok=True)
            file_path == OsTarget(w.fs, validated.val)
            data == Text(Utf8Encode(TranslateOnWrite(content.body)), content.pad)
            file == [kind |-> "file", data |-> data]
            w1 == [w EXCEPT !.base_exists = TRUE]
        IN  IF file_path.root = "loop"
            THEN Effect(Raise("OSError", "Too many levels of symbolic links"), {}, made, w1)
            ELSE IF file_path.root = "outside"
                 THEN Effect(Ok(InBase(validated.val)), {file_path}, made,
                             [w1 EXCEPT !.outside = data])
            ELSE IF file_path.name \in DOMAIN w.fs /\ w.fs[file_path.name].kind = "dir"
                 THEN Effect(Raise("IsADirectoryError", "Is a directory"), {}, made, w1)
            ELSE Effect(Ok(InBase(validated.val)), {file_path}, made,
                        [w1 EXCEPT !.fs = [n \in DOMAIN w.fs \cup {file_path.name} |->
                                              IF n = file_path.name THEN file ELSE w.fs[n]]])

\* Inputs.  The directory the handler is constructed on holds any entries.
S_a_txt == <<"a",".","t","x","t">>
S_b_md  == <<"b",".","m","d">>
FsNames == {S_a_txt, S_b_md}
OutsideData == Text(<<"r","o","o","t">>, 0)
InitDatas == { Text(<<"o","l","d">>, 0), Text(<<"0xFF">>, 0), Text(<<>>, MAX_CONTENT_SIZE + 1) }
InitEntries ==
    {[kind |-> "dir"], [kind |-> "link", to |-> OUTSIDE]}
      \cup {[kind |-> "link", to |-> n] : n \in FsNames}
      \cup {[kind |-> "file", data |-> d] : d \in InitDatas}
InitDirs == UNION {[D -> InitEntries] : D \in SUBSET FsNames}

FileNameArgs ==
    { PyStr(S_a_txt), PyStr(S_b_md), PyStr(<<" ">> \o S_a_txt \o <<"\n">>),
      PyStr(<<".", ".", "/">> \o S_b_md), PyStr(<<"a",".","p","h","p">>) }
MaxBody == 2
ContentChars == {"\r", "\n", "U+00E9"}
FileContents ==
    {Text(b, 0) : b \in StringsUpTo(ContentChars, MaxBody)}
      \cup { Text(<<>>, 1), Text(<<"U+00E9">>, MAX_CONTENT_SIZE - 1),
             Text(<<>>, MAX_CONTENT_SIZE), Text(<<>>, 2 * MAX_CONTENT_SIZE) }
MaxSizeArgs == {PyNone, PyInt(0), PyInt(2)}

CurrentWorld == World(fs, base_exists, outside)

\* what the claims need of the directory before the call
Before(w, filename) ==
    LET plain == validate_filename(filename, NoBaseDir)
    IN  [world |-> w,
         escapes |-> plain.ok /\ OsTarget(w.fs, plain.val).root = "outside"]

FileCall(op, filename, content, max_size, e, before) ==
    [op |-> op, filename |-> filename, content |-> content, max_size |-> max_size,
     ret |-> e.ret, opened |-> e.opened, made_dir |-> e.made_dir, before |-> before]

ApplyEffect(e) ==
    /\ fs' = e.world.fs
    /\ base_exists' = e.world.base_exists
    /\ outside' = e.world.outside

\* one call safe_read_file(filename, max_size)
SafeReadFile ==
    /\ file_call.op = "none"
    /\ \E filename \in FileNameArgs, max_size \in MaxSizeArgs :
          LET e == safe_read_file(CurrentWorld, filename, max_size)
          IN  /\ ApplyEffect(e)
              /\ file_call' = FileCall("read", filename, Text(<<>>, 0), max_size, e,
                                       Before(CurrentWorld, filename))
    /\ UNCHANGED <<urlVars, fnVars, htmlVars, emailVars, rateVars, httpVars, cfgVars, raceVars, ioVars, appVars>>

\* one call safe_write_file(filename, content, max_size)
SafeWriteFile ==
    /\ file_call.op = "none"
    /\ \E filename \in FileNameArgs, content \in FileContents, max_size \in MaxSizeArgs :
          LET e == safe_write_file(CurrentWorld, filename, content, max_size)
          IN  /\ ApplyEffect(e)
              /\ file_call' = FileCall("write", filename, content, max_size, e,
                                       Before(CurrentWorld, filename))
    /\ UNCHANGED <<urlVars, fnVars, htmlVars, emailVars, rateVars, httpVars, cfgVars, raceVars, ioVars, appVars>>

\* safe_read_file(filename) right after safe_write_file(filename, content) returned
ReadBack ==
    /\ file_call.op = "write" /\ file_call.ret.ok
    /\ LET e == safe_read_file(CurrentWorld, file_call.filename, PyNone)
       IN  /\ ApplyEffect(e)
           /\ file_call' = FileCall("readback", file_call.filename, file_call.content, PyNone,
                                    e, Before(CurrentWorld, file_call.filename))
    /\ UNCHANGED <<urlVars, fnVars, htmlVars, emailVars, rateVars, httpVars, cfgVars, raceVars, ioVars, appVars>>

-----------------------------------------------------------------------------
(* A safe_write_file call and a safe_read_file call on one file of the     *)
(* base directory, step by step: the write opens the file with mode 'w',   *)
(* which empties it, and its text reaches the file when the with block     *)
(* closes it; the read looks at the size first and opens the file          *)
(* afterwards.  writer is [pc, filename, content, max_size, ret, before]   *)
(* with the directory as it was before both calls, reader is               *)
(* [pc, filename, max_size, path, ret].                                    *)

\* lines 198-211: validate, check the size, make the directory, open(file_path, 'w')
WriteOpen ==
    /\ writer.pc = "start"
    /\ LET checked == safe_write_file(CurrentWorld, writer.filename, writer.content,
                                      writer.max_size)
           emptied == safe_write_file(CurrentWorld, writer.filename, Text(<<>>, 0),
                                      writer.max_size)
       IN  IF checked.ret.ok
           THEN /\ ApplyEffect(emptied)
                /\ writer' = [writer EXCEPT !.pc = "opened"]
           ELSE /\ ApplyEffect(checked)
                /\ writer' = [writer EXCEPT !.pc = "done", !.ret = checked.ret]
    /\ UNCHANGED <<file_call, reader>>
    /\ UNCHANGED <<urlVars, fnVars, htmlVars, emailVars, rateVars, httpVars, cfgVars, raceVars, appVars>>

\* lines 212-213: f.write(content), the file is closed, return str(file_path)
WriteClose ==
    /\ writer.pc = "opened"
    /\ LET e == safe_write_file(CurrentWorld, writer.filename, writer.content, writer.max_size)
       IN  /\ ApplyEffect(e)
           /\ writer' = [writer EXCEPT !.pc = "done", !.ret = e.ret]
    /\ UNCHANGED <<file_call, reader>>
    /\ UNCHANGED <<urlVars, fnVars, htmlVars, emailVars, rateVars, httpVars, cfgVars, raceVars, appVars>>

\* lines 171-185: validate, exists(), is_file(), stat().st_size against max_size
ReadStat ==
    /\ reader.pc = "start"
    /\ LET checked == safe_read_file(CurrentWorld, reader.filename, reader.max_size)
       IN  reader' = IF checked.opened = {}
                     THEN [reader EXCEPT !.pc = "done", !.ret = checked.ret]
                     ELSE [reader EXCEPT !.pc = "checked",
                                         !.path = CHOOSE q \in checked.opened : TRUE]
    /\ UNCHANGED <<fs, base_exists, outside, file_call, writer>>
    /\ UNCHANGED <<urlVars, fnVars, htmlVars, emailVars, rateVars, httpVars, cfgVars, raceVars, appVars>>

\* lines 187-192: open the file and read what it holds now
ReadOpen ==
    /\ reader.pc = "checked"
    /\ reader' = [reader EXCEPT !.pc = "done", !.ret = ReadText(CurrentWorld, reader.path)]
    /\ UNCHANGED <<fs, base_exists, outside, file_call, writer>>
    /\ UNCHANGED <<urlVars, fnVars, htmlVars, emailVars, rateVars, httpVars, cfgVars, raceVars, appVars>>

-----------------------------------------------------------------------------
(* RateLimiter.  self.requests maps an identifier to                       *)
(* [count |-> n, first_request |-> t]; time.time() is the clock `now`,     *)
(* which never runs backwards.                                             *)

MaxRequests == 2        \* max_requests of the constructor
TimeWindow == 2         \* time_window of the constructor
MaxTime == 3            \* the clock stops here
Identifiers == {"a", "b"}

\* the dict comprehension that drops the windows current_time has left behind
MutPruneNothing(reqs, current_time) == reqs
MutPruneBoundaryKept(reqs, current_time) ==
    [k \in {k \in DOMAIN reqs : current_time - reqs[k].first_request <= TimeWindow} |-> reqs[k]]
MutPruneKeepsExpired(reqs, current_time) ==
    [k \in {k \in DOMAIN reqs : current_time - reqs[k].first_request >= TimeWindow} |-> reqs[k]]
Prune(reqs, current_time) ==
    [k \in {k \in DOMAIN reqs : current_time - reqs[k].first_request < TimeWindow} |-> reqs[k]]

\* request_data['count'] >= self.max_requests
MutCountExhausted(count) == count > MaxRequests
CountExhausted(count) == count >= MaxRequests

\* a variant in which a denied call restarts the identifier's window
MutIsAllowedDenialRestarts(reqs, identifier, current_time) ==
    LET cleaned == Prune(reqs, current_time)
    IN  IF identifier \notin DOMAIN cleaned
        THEN [allowed |-> TRUE,
              requests |-> [k \in DOMAIN cleaned \cup {identifier} |->
                              IF k = identifier
                              THEN [count |-> 1, first_request |-> current_time]
                              ELSE cleaned[k]]]
        ELSE IF CountExhausted(cleaned[identifier].count)
             THEN [allowed |-> FALSE,
                   requests |-> [cleaned EXCEPT ![identifier].first_request = current_time]]
        ELSE [allowed |-> TRUE,
              requests |-> [cleaned EXCEPT ![identifier].count = @ + 1]]

is_allowed(reqs, identifier, current_time) ==
    LET cleaned == Prune(reqs, current_time)
    IN  IF identifier \notin DOMAIN cleaned
        THEN [allowed |-> TRUE,
              requests |-> [k \in DOMAIN cleaned \cup {identifier} |->
                              IF k = identifier
                              THEN [count |-> 1, first_request |-> current_time]
                              ELSE cleaned[k]]]
        ELSE IF CountExhausted(cleaned[identifier].count)
             THEN [allowed |-> FALSE, requests |-> cleaned]
        ELSE [allowed |-> TRUE,
              requests |-> [cleaned EXCEPT ![identifier].count = @ + 1]]

\* history: the calls made for an identifier since the first call of its
\* current window, a window ending TimeWindow after that first call
CallsAfter(hist, identifier, t) ==
    IF identifier \in DOMAIN hist /\ t - hist[identifier].first < TimeWindow
    THEN [hist EXCEPT ![identifier].n = @ + 1]
    ELSE [k \in DOMAIN hist \cup {identifier} |->
            IF k = identifier THEN [first |-> t, n |-> 1] ELSE hist[k]]

\* the calls counted for one window are capped, to keep the history finite
MaxCallsPerWindow == MaxRequests + 2

\* history: one more call that returned True for the identifier at time t
NoneAdmitted == [k \in Identifiers |-> [t \in 0..MaxTime |-> 0]]
AdmittedAfter(log, identifier, t, allowed) ==
    IF allowed THEN [log EXCEPT ![identifier][t] = @ + 1] ELSE log

\* one call is_allowed(identifier) at the current time
IsAllowed ==
    /\ \E identifier \in Identifiers :
          LET r == is_allowed(requests, identifier, now)
              h == CallsAfter(calls, identifier, now)
          IN  /\ h[identifier].n <= MaxCallsPerWindow
              /\ requests' = r.requests
              /\ calls' = h
              /\ admitted' = AdmittedAfter(admitted, identifier, now, r.allowed)
              /\ rl_call' = [op |-> "is_allowed", id |-> identifier, allowed |-> r.allowed,
                             at |-> now, before |-> requests, hist |-> calls]
    /\ UNCHANGED <<now, urlVars, fnVars, htmlVars, emailVars, fileVars, httpVars, cfgVars, raceVars, ioVars, appVars>>

\* time passes
Tick ==
    /\ now < MaxTime
    /\ now' = now + 1
    /\ UNCHANGED <<requests, rl_call, calls, admitted, urlVars, fnVars, htmlVars, emailVars, fileVars, httpVars, cfgVars, raceVars, ioVars, appVars>>

-----------------------------------------------------------------------------
(* RateLimiter.is_allowed run by several callers on one instance.  A call  *)
(* is a sequence of steps, each reading or writing self.requests once; a   *)
(* caller is [pc, id, t, snap, first, c]: its position, its identifier,    *)
(* its current_time, the map it has built, and the entry and count it has  *)
(* read.  mutex is "none" when the callers use no lock; otherwise a caller *)
(* holds it for the whole call.  The calls overlap within one reading of   *)
(* the clock.                                                              *)

Threads == {"t1", "t2"}
IdleThread == [pc |-> "idle", id |-> "a", t |-> 0, snap |-> <<>>, first |-> 0, c |-> 0]

\* the caller leaves is_allowed and gives the lock back
Return(th) ==
    /\ threads' = [threads EXCEPT ![th] = IdleThread]
    /\ mutex' = IF mutex = "none" THEN "none" ELSE "free"

\* lines 331-337, right-hand side: read the clock, build the map without the old entries
Enter ==
    /\ \E th \in Threads, identifier \in Identifiers :
          /\ threads[th].pc = "idle"
          /\ mutex \in {"none", "free"}
          /\ admitted[identifier][now] < MaxCallsPerWindow     \* keeps the history finite
          /\ mutex' = IF mutex = "none" THEN "none" ELSE th
          /\ threads' = [threads EXCEPT ![th] =
                            [IdleThread EXCEPT !.pc = "rebuild", !.id = identifier, !.t = now,
                                               !.snap = Prune(requests, now)]]
    /\ UNCHANGED <<requests, now, rl_call, calls, admitted, window_lost>>
    /\ UNCHANGED <<urlVars, fnVars, htmlVars, emailVars, fileVars, httpVars, cfgVars, ioVars, appVars>>

\* line 334: self.requests = the map built
Rebuild ==
    /\ \E th \in Threads :
          /\ threads[th].pc = "rebuild"
          /\ requests' = threads[th].snap
          /\ window_lost' =
                (window_lost \/ \E k \in DOMAIN requests \ DOMAIN threads[th].snap :
                                   threads[th].t - requests[k].first_request < TimeWindow)
          /\ threads' = [threads EXCEPT ![th].pc = "test"]
    /\ UNCHANGED <<now, rl_call, calls, admitted, mutex>>
    /\ UNCHANGED <<urlVars, fnVars, htmlVars, emailVars, fileVars, httpVars, cfgVars, ioVars, appVars>>

\* line 339: identifier not in self.requests
Test ==
    /\ \E th \in Threads :
          /\ threads[th].pc = "test"
          /\ threads' = [threads EXCEPT ![th].pc =
                            IF threads[th].id \notin DOMAIN requests THEN "create" ELSE "check"]
    /\ UNCHANGED <<requests, now, rl_call, calls, admitted, mutex, window_lost>>
    /\ UNCHANGED <<urlVars, fnVars, htmlVars, emailVars, fileVars, httpVars, cfgVars, ioVars, appVars>>

\* lines 340-344: store a fresh entry, return True
Create ==
    /\ \E th \in Threads :
          LET identifier == threads[th].id
          IN  /\ threads[th].pc = "create"
              /\ requests' = [k \in DOMAIN requests \cup {identifier} |->
                                 IF k = identifier
                                 THEN [count |-> 1, first_request |-> threads[th].t]
                                 ELSE requests[k]]
              /\ window_lost' = (window_lost \/ identifier \in DOMAIN requests)
              /\ admitted' = AdmittedAfter(admitted, identifier, threads[th].t, TRUE)
              /\ Return(th)
    /\ UNCHANGED <<now, rl_call, calls>>
    /\ UNCHANGED <<urlVars, fnVars, htmlVars, emailVars, fileVars, httpVars, cfgVars, ioVars, appVars>>

\* lines 346-348: fetch the entry (KeyError when it is gone), return False when
\* its count is used up
Check ==
    /\ \E th \in Threads :
          LET identifier == threads[th].id
          IN  /\ threads[th].pc = "check"
              /\ IF identifier \in DOMAIN requests
                       /\ ~CountExhausted(requests[identifier].count)
                 THEN /\ threads' = [threads EXCEPT ![th].pc = "load",
                                         ![th].first = requests[identifier].first_request,
                                         ![th].c = requests[identifier].count]
                      /\ UNCHANGED mutex
                 ELSE Return(th)
    /\ UNCHANGED <<requests, now, rl_call, calls, admitted, window_lost>>
    /\ UNCHANGED <<urlVars, fnVars, htmlVars, emailVars, fileVars, httpVars, cfgVars, ioVars, appVars>>

\* the entry the caller holds is still the one in the map
HoldsEntry(th) ==
    /\ threads[th].id \in DOMAIN requests
    /\ requests[threads[th].id].first_request = threads[th].first

\* line 350, request_data['count'] += 1: read the count
Load ==
    /\ \E th \in Threads :
          /\ threads[th].pc = "load"
          /\ threads' = [threads EXCEPT ![th].pc = "store",
                             ![th].c = IF HoldsEntry(th) THEN requests[threads[th].id].count
                                       ELSE threads[th].c]
    /\ UNCHANGED <<requests, now, rl_call, calls, admitted, mutex, window_lost>>
    /\ UNCHANGED <<urlVars, fnVars, htmlVars, emailVars, fileVars, httpVars, cfgVars, ioVars, appVars>>

\* line 350-351: write the count back (into the map when the entry is still
\* there), return True
Store ==
    /\ \E th \in Threads :
          /\ threads[th].pc = "store"
          /\ requests' = IF HoldsEntry(th)
                          THEN [requests EXCEPT ![threads[th].id].count = threads[th].c + 1]
                          ELSE requests
          /\ admitted' = AdmittedAfter(admitted, threads[th].id, threads[th].t, TRUE)
          /\ Return(th)
    /\ UNCHANGED <<now, rl_call, calls, window_lost>>
    /\ UNCHANGED <<urlVars, fnVars, htmlVars, emailVars, fileVars, httpVars, cfgVars, ioVars, appVars>>

-----------------------------------------------------------------------------
(* SecureHTTPClient.safe_get.  The server's answer is                      *)
(* [outcome |-> [transport |-> "ok" or the failure, status |-> n],         *)
(*  content_length |-> the header (PyNone when absent, PyInt(n) for a      *)
(*  number, a PyStr otherwise), chunks |-> the sizes of the chunks that     *)
(*  iter_content delivers, redirects |-> the targets it redirects          *)
(*  through].                                                              *)

DEFAULT_MAX_RESPONSE == 5242880
CHUNK_SIZE == 8192

\* the streaming loop: [ok, read |-> chunks consumed, acc |-> len(content)]
RECURSIVE MutReadAllThenCheck(_, _, _, _)
MutReadAllThenCheck(chunks, i, acc, max_size) ==
    IF i > Len(chunks) THEN [ok |-> acc <= max_size, read |-> Len(chunks), acc |-> acc]
    ELSE MutReadAllThenCheck(chunks, i + 1, acc + chunks[i], max_size)
RECURSIVE ReadChunks(_, _, _, _)
ReadChunks(chunks, i, acc, max_size) ==
    IF i > Len(chunks) THEN [ok |-> TRUE, read |-> Len(chunks), acc |-> acc]
    ELSE LET content == acc + chunks[i]
         IN  IF content > max_size THEN [ok |-> FALSE, read |-> i, acc |-> content]
             ELSE ReadChunks(chunks, i + 1, content, max_size)

\* sent: the URLs handed to self.session.get, none when no request was issued;
\* fetched: the URLs a response was retrieved from
HttpEffect(ret, sent, fetched, read, acc) ==
    [op |-> "safe_get", ret |-> ret, requested |-> sent # {}, sent |-> sent,
     fetched |-> fetched, chunks_read |-> read, accumulated |-> acc]

\* allow_redirects=True: the session requests the URL it is given and then the
\* target of every redirect it is answered with; the server's outcome is that
\* of the last request, the ones before it were answered with the redirect
Fetched(first, server) ==
    LET hops == <<first>> \o server.redirects
        answered == IF server.outcome.transport = "ok" THEN Len(hops) ELSE Len(hops) - 1
    IN  {hops[i] : i \in 1..answered}

\* the first argument of self.session.get(validated_url, ...)
MutSessionGetRawUrl(url, validated_url) == url.s
SessionGetArg(url, validated_url) == validated_url

safe_get(url, max_size, server) ==
    LET validated_url == validate_url(url)
        get == {SessionGetArg(url, validated_url.val)}
        got == Fetched(SessionGetArg(url, validated_url.val), server)
    IN  IF ~validated_url.ok THEN HttpEffect(validated_url, {}, {}, 0, 0)
        ELSE IF server.outcome.transport = "SSLError"
             THEN HttpEffect(SecurityError("SSL verification failed"), get, got, 0, 0)
        ELSE IF server.outcome.transport = "ConnectionError"
             THEN HttpEffect(SecurityError("Connection failed"), get, got, 0, 0)
        ELSE IF server.outcome.transport = "Timeout"
             THEN HttpEffect(SecurityError("Request timeout"), get, got, 0, 0)
        ELSE IF server.outcome.status >= 400          \* response.raise_for_status()
             THEN HttpEffect(SecurityError("HTTP request failed"), get, got, 0, 0)
        ELSE LET content_length == server.content_length
                 present == \/ content_length.ty = "int"
                            \/ (content_length.ty = "str" /\ content_length.s # <<>>)
             IN  IF present /\ content_length.ty = "str"        \* int(content_length)
                 THEN HttpEffect(Raise("ValueError", "invalid literal for int()"), get, got, 0, 0)
                 ELSE IF present /\ content_length.n > max_size
                      THEN HttpEffect(SecurityError("Response too large"), get, got, 0, 0)
                 ELSE LET r == ReadChunks(server.chunks, 1, 0, max_size)
                      IN  IF r.ok
                          THEN HttpEffect(Ok([status |-> server.outcome.status, content |-> r.acc]),
                                          get, got, r.read, r.acc)
                          ELSE HttpEffect(SecurityError("Response content too large"),
                                          get, got, r.read, r.acc)

\* Inputs
MaxChunks == 3
ChunkSizes == {1, CHUNK_SIZE - 1, CHUNK_SIZE}
HttpUrls ==
    { PyStr(S_https \o S_a_aa), PyStr(S_http \o S_a_aa),
      PyStr(<<" ">> \o S_https \o S_a_aa \o <<"/", "\n">>),
      PyStr(<<"f","t","p",":","/","/">> \o S_a_aa), PyNone }
HttpMaxSizes == {DEFAULT_MAX_RESPONSE, CHUNK_SIZE, 1}
ServerOutcomes ==
    {[transport |-> t, status |-> 0] : t \in {"SSLError", "ConnectionError", "Timeout"}}
      \cup {[transport |-> "ok", status |-> n] : n \in {200, 404}}
ContentLengths ==
    {PyNone, PyStr(<<>>), PyInt(0), PyInt(CHUNK_SIZE), PyInt(DEFAULT_MAX_RESPONSE + 1),
     PyStr(<<"x">>)}
\* the Location targets a server redirects through
RedirectChains ==
    { <<S_http \o S_a_aa>>, <<S_https \o S_a_aa \o <<"/">> >>,
      <<S_https \o S_a_aa \o <<"/">>, <<"f","i","l","e",":","/","/","/">> >> }
HttpArgs ==
    [url : HttpUrls, max_size : HttpMaxSizes,
     server : [outcome : ServerOutcomes, content_length : ContentLengths,
               chunks : StringsUpTo(ChunkSizes, MaxChunks), redirects : {<<>>}]]
      \cup
    [url : HttpUrls, max_size : {DEFAULT_MAX_RESPONSE},
     server : [outcome : ServerOutcomes, content_length : {PyNone},
               chunks : {<<1>>}, redirects : RedirectChains]]

\* one call safe_get(url, max_size) against a server
SafeGet ==
    /\ http_call = NoCall
    /\ http_call' = safe_get(http_arg.url, http_arg.max_size, http_arg.server)
    /\ UNCHANGED <<http_arg, urlVars, fnVars, htmlVars, emailVars, fileVars, rateVars, cfgVars, raceVars, ioVars, appVars>>

-----------------------------------------------------------------------------
(* SecurityValidator.validate_json_config.  A Python dict is               *)
(* [ty |-> "dict", d |-> a function from its keys to their values].        *)

PyDict(d) == [ty |-> "dict", d |-> d]

K_websites == <<"w","e","b","s","i","t","e","s">>
K_keywords == <<"k","e","y","w","o","r","d","s">>
K_eval     == <<"e","v","a","l">>

allowed_keys ==
    { <<"w","e","b","s","i","t","e","s">>,
      <<"k","e","y","w","o","r","d","s">>,
      <<"s","c","h","e","d","u","l","i","n","g">>,
      <<"n","e","w","s","l","e","t","t","e","r","_","s","e","t","t","i","n","g","s">>,
      <<"p","a","y","e","r","_","k","e","y","w","o","r","d","s">>,
      <<"i","n","n","o","v","a","t","i","o","n","_","k","e","y","w","o","r","d","s">> }

KNOWN_WEBSITE_KEYS ==
    { <<"h","o","s","p","i","t","a","l","o","g","y">>,
      <<"h","e","a","l","t","h","c","a","r","e","i","t","n","e","w","s">>,
      <<"f","i","e","r","c","e","h","e","a","l","t","h","c","a","r","e">> }

\* ScraperManager.__init__: the keys of self.scrapers
ScraperKeys ==
    { <<"h","o","s","p","i","t","a","l","o","g","y">>,
      <<"h","e","a","l","t","h","c","a","r","e","i","t","n","e","w","s">>,
      <<"f","i","e","r","c","e","h","e","a","l","t","h","c","a","r","e">>,
      <<"s","t","a","t","n","e","w","s">>,
      <<"k","f","f","h","e","a","l","t","h","n","e","w","s">>,
      <<"h","e","a","l","t","h","c","a","r","e","d","i","v","e">>,
      <<"m","o","b","i","h","e","a","l","t","h","n","e","w","s">>,
      <<"f","i","e","r","c","e","b","i","o","t","e","c","h">>,
      <<"b","e","c","k","e","r","s","h","o","s","p","i","t","a","l","r","e","v","i","e","w">>,
      <<"m","e","d","p","a","g","e","t","o","d","a","y">>,
      <<"e","n","d","p","o","i","n","t","s","n","e","w","s">> }

\* ScraperManager.get_available_websites
get_available_websites == ScraperKeys

\* isinstance(url, str) and url.strip().lower() in KNOWN_WEBSITE_KEYS
MutKnownKeyCaseSensitive(url) == url.ty = "str" /\ Strip(url.s) \in KNOWN_WEBSITE_KEYS
KnownKey(url) == url.ty = "str" /\ StrLower(Strip(url.s)) \in KNOWN_WEBSITE_KEYS

\* the loop over config_data['websites']: the validated list, or the first failure
RECURSIVE ValidateWebsites(_, _, _)
ValidateWebsites(items, i, validated_websites) ==
    IF i > Len(items) THEN Ok(validated_websites)
    ELSE IF KnownKey(items[i])
         THEN ValidateWebsites(items, i + 1, Append(validated_websites, PyStr(Strip(items[i].s))))
         ELSE LET checked == validate_url(items[i])
              IN  IF ~checked.ok THEN checked
                  ELSE ValidateWebsites(items, i + 1, Append(validated_websites, PyStr(checked.val)))

\* the keys logger.warning is called for
UnexpectedKeys(config_data) ==
    IF config_data.ty = "dict" THEN DOMAIN config_data.d \ allowed_keys ELSE {}

validate_json_config(config_data) ==
    IF config_data.ty # "dict" THEN SecurityError("Configuration must be a dictionary")
    ELSE IF K_websites \in DOMAIN config_data.d
         THEN IF config_data.d[K_websites].ty # "list" THEN SecurityError("Websites must be a list")
              ELSE LET websites == ValidateWebsites(config_data.d[K_websites].items, 1, <<>>)
                   IN  IF ~websites.ok THEN websites
                       ELSE Ok(PyDict([config_data.d EXCEPT ![K_websites] = PyList(websites.val)]))
         ELSE Ok(config_data)

\* Inputs: the entries of the tests, with and without surrounding whitespace
MaxWebsites == 2
S_hospitalogy == <<"h","o","s","p","i","t","a","l","o","g","y">>
S_not_a_url == <<"n","o","t","-","a","-","u","r","l","-","o","r","-","k","n","o","w","n","-","k","e","y">>
WebsiteEntries ==
    { PyStr(S_hospitalogy),
      PyStr(<<" ", "H">> \o Tail(S_hospitalogy) \o <<"\n">>),
      PyStr(S_https \o S_a_aa \o <<"/">>),
      PyStr(<<" ">> \o S_https \o S_a_aa),
      PyStr(S_http \o S_a_aa),
      PyStr(S_not_a_url),
      PyNone }
WebsiteValues ==
    {PyList(l) : l \in StringsUpTo(WebsiteEntries, MaxWebsites)}
      \cup {PyList(<<PyStr(k)>>) : k \in get_available_websites}
      \cup {PyStr(<<"n","o","t","_","a","_","l","i","s","t">>)}
ConfigDicts ==
    {PyDict(w @@ k @@ e) :
        w \in {<<>>} \cup {K_websites :> v : v \in WebsiteValues},
        k \in {<<>>, K_keywords :> PyList(<<PyStr(<<"w">>)>>)},
        e \in {<<>>, K_eval :> PyStr(<<"x">>)}}
ConfigArgs == ConfigDicts \cup {PyList(<<>>), PyNone}

\* one call validate_json_config(cfg_arg)
ValidateJsonConfig ==
    /\ cfg_ret = NoCall
    /\ cfg_ret' = validate_json_config(cfg_arg)
    /\ cfg_log' = UnexpectedKeys(cfg_arg)
    /\ UNCHANGED <<cfg_arg, urlVars, fnVars, htmlVars, emailVars, fileVars, rateVars, httpVars, raceVars, ioVars, appVars>>

-----------------------------------------------------------------------------
(* NewsletterGenerator.save_newsletter (src/newsletter_generator.py).  The  *)
(* call runs against the directory "newsletters" of the working directory, *)
(* on the day `today` (the text of strftime('%Y%m%d')).                    *)

\* f"healthcare_newsletter_{timestamp}.md"
DefaultFilename(today) ==
    <<"h","e","a","l","t","h","c","a","r","e","_","n","e","w","s","l","e","t","t","e","r","_">>
      \o today \o <<".","m","d">>

\* not filename
Falsy(v) == v.ty = "none" \/ (v.ty = "str" /\ v.s = <<>>) \/ (v.ty = "int" /\ v.n = 0)
              \/ (v.ty = "list" /\ v.items = <<>>)

\* content if isinstance(content, str) else str(content)
MutNormalizedContentEscaped(content) ==
    IF content.ty = "str" THEN html_escape(content.s) ELSE PyStrOf(content)
NormalizedContent(content) ==
    IF content.ty = "str" THEN content.s ELSE PyStrOf(content)

\* handed: the arguments of the calls of safe_write_file, in order
SaveEffect(ret, handed, w) == [op |-> "save_newsletter", ret |-> ret, handed |-> handed, world |-> w]

save_newsletter(w, content, filename, today) ==
    LET name == IF Falsy(filename) THEN PyStr(DefaultFilename(today)) ELSE filename
        validated_filename == validate_filename(name, NoBaseDir)
    IN  IF ~validated_filename.ok
        THEN SaveEffect(Raise("ValueError", "Failed to save newsletter"), <<>>, w)
        ELSE
        LET made == [w EXCEPT !.base_exists = TRUE]       \* newsletters_dir.mkdir(exist_ok=True)
            normalized_content == Text(NormalizedContent(content), 0)
            e == safe_write_file(made, PyStr(validated_filename.val), normalized_content, PyNone)
            handed == <<[filename |-> validated_filename.val, content |-> normalized_content]>>
        IN  IF e.ret.ok THEN SaveEffect(e.ret, handed, e.world)
            ELSE IF e.ret.exc = "SecurityError"
                 THEN SaveEffect(Raise("ValueError", "Failed to save newsletter"), handed, e.world)
            ELSE SaveEffect(e.ret, handed, e.world)

\* Inputs
S_today == <<"2","0","2","5","0","1","3","1">>
SaveFilenames ==
    { PyNone, PyStr(<<>>), PyStr(S_b_md), PyStr(<<" ">> \o S_b_md),
      PyStr(<<".", ".", "/">> \o S_b_md), PyStr(<<"b",".","h","t","m","l">>), PyInt(5) }
SaveDirs ==
    { World(<<>>, FALSE, OutsideData), World(<<>>, TRUE, OutsideData),
      World(S_b_md :> [kind |-> "dir"], TRUE, OutsideData),
      World(S_b_md :> [kind |-> "link", to |-> OUTSIDE], TRUE, OutsideData) }
SaveArgs == [content : HtmlArgs, filename : SaveFilenames, today : {S_today}, dir : SaveDirs]

\* one call save_newsletter(content, filename)
SaveNewsletter ==
    /\ save_call = NoCall
    /\ save_call' = save_newsletter(save_arg.dir, save_arg.content, save_arg.filename,
                                    save_arg.today)
    /\ UNCHANGED <<save_arg, collectVars, schedVars>>
    /\ UNCHANGED <<urlVars, fnVars, htmlVars, emailVars, fileVars, rateVars, httpVars, cfgVars, raceVars, ioVars>>

-----------------------------------------------------------------------------
(* NewsletterGenerator.collect_articles (src/newsletter_generator.py).  A  *)
(* text that may be long is [ty |-> "str", s |-> characters, pad |-> n]:   *)
(* the characters followed by n times "x".  A scraped article is           *)
(* [title, url, content], each a text or None; an Article of the result is *)
(* [title, url, content] with the title and the URL as character           *)
(* sequences.                                                              *)

MIN_ARTICLE_CONTENT == 50
MAX_ARTICLE_CONTENT == 3000

PyText(body, pad) == [ty |-> "str", s |-> body, pad |-> pad]
TextLen(t) == Len(t.s) + t.pad

\* re.sub(r'\s+', ' ', value)
RECURSIVE CollapseWhitespace(_)
CollapseWhitespace(s) ==
    IF s = <<>> THEN <<>>
    ELSE IF s[1] \in Whitespace
         THEN IF Len(s) >= 2 /\ s[2] \in Whitespace THEN CollapseWhitespace(Tail(s))
              ELSE <<" ">> \o CollapseWhitespace(Tail(s))
         ELSE <<s[1]>> \o CollapseWhitespace(Tail(s))

\* NewsletterGenerator._normalize_text
_normalize_text(value) ==
    IF value.ty # "str" THEN PyText(<<>>, 0)
    ELSE IF value.pad = 0 THEN PyText(Strip(CollapseWhitespace(value.s)), 0)
    ELSE LET head == Strip(CollapseWhitespace(value.s \o <<"x">>))
         IN  PyText(SubSeq(head, 1, Len(head) - 1), value.pad)

\* text[:n]
Truncate(t, n) ==
    IF Len(t.s) >= n THEN PyText(SubSeq(t.s, 1, n), 0)
    ELSE PyText(t.s, Min(t.pad, n - Len(t.s)))

\* the first position from `from` on that holds one of cs, Len(s) + 1 when none does
FirstOf(s, cs, from) ==
    LET I == {i \in from..Len(s) : s[i] \in cs}
    IN  IF I = {} THEN Len(s) + 1 ELSE CHOOSE i \in I : \A j \in I : i <= j

\* urlparse(url): netloc and path
UrlParse(url) ==
    LET colon == FirstOf(url, {":"}, 1)
        scheme == /\ 1 < colon /\ colon <= Len(url)
                  /\ url[1] \in Upper \cup Lower
                  /\ \A i \in 1..(colon - 1) : url[i] \in Upper \cup Lower \cup Digit \cup {"+", "-", "."}
        rest == IF scheme THEN SubSeq(url, colon + 1, Len(url)) ELSE url
        slashes == StartsWith(rest, <<"/", "/">>)
        stop == FirstOf(rest, {"/", "?", "#"}, 3)
        after == IF slashes THEN SubSeq(rest, stop, Len(rest)) ELSE rest
    IN  [netloc |-> IF slashes THEN SubSeq(rest, 3, stop - 1) ELSE <<>>,
         path |-> SubSeq(after, 1, FirstOf(after, {"?", "#"}, 1) - 1)]

\* str.rstrip('/')
RStripSlash(s) ==
    LET keep == {i \in 1..Len(s) : s[i] # "/"}
    IN  IF keep = {} THEN <<>>
        ELSE SubSeq(s, 1, CHOOSE i \in keep : \A j \in keep : i >= j)

\* NewsletterGenerator._resolve_source_identifier: the values it can return
\* (the candidates are tried in the iteration order of a set)
_resolve_source_identifier(source, available) ==
    IF source = <<>> THEN {PyNone}
    ELSE LET normalized == RStripSlash(StrLower(Strip(source)))
         IN  IF normalized \in available THEN {PyStr(normalized)}
             ELSE LET parsed == UrlParse(IF StartsWith(normalized, S_http_)
                                         THEN normalized ELSE S_https \o normalized)
                      host == IF parsed.netloc # <<>> THEN parsed.netloc ELSE parsed.path
                      found == {candidate \in available : Contains(host, candidate)}
                  IN  IF found = {} THEN {PyNone} ELSE {PyStr(candidate) : candidate \in found}

\* if not title or len(content) < 50: continue
MutSkipArticleIgnoresTitle(title, content) == TextLen(content) < MIN_ARTICLE_CONTENT
SkipArticle(title, content) == TextLen(title) = 0 \/ TextLen(content) < MIN_ARTICLE_CONTENT

Article(title, url, content) == [title |-> title, url |-> url, content |-> content]

\* NewsletterGenerator._convert_scraped_articles
RECURSIVE _convert_scraped_articles(_, _, _)
_convert_scraped_articles(scraped_articles, i, normalized_articles) ==
    IF i > Len(scraped_articles) THEN normalized_articles
    ELSE LET scraped == scraped_articles[i]
             validated_url == validate_url(scraped.url)
             title == _normalize_text(scraped.title)
             content == Truncate(_normalize_text(scraped.content), MAX_ARTICLE_CONTENT)
         IN  IF ~validated_url.ok \/ SkipArticle(title, content)
             THEN _convert_scraped_articles(scraped_articles, i + 1, normalized_articles)
             ELSE _convert_scraped_articles(scraped_articles, i + 1,
                      Append(normalized_articles, Article(title.s, validated_url.val, content)))

\* the loop of collect_articles from source i on; c is what was collected and
\* called so far
RECURSIVE CollectLoop(_, _, _, _, _)
CollectLoop(sources, keys, env, i, c) ==
    IF i > Len(sources) THEN [c EXCEPT !.ret = Ok(c.articles)]
    ELSE IF keys[i] = PyStr(S_hospitalogy)
         THEN IF env.hospitalogy.ok
              THEN CollectLoop(sources, keys, env, i + 1,
                       [c EXCEPT !.articles = @ \o env.hospitalogy.val, !.hospitalogy_calls = @ + 1])
              ELSE [c EXCEPT !.ret = env.hospitalogy, !.hospitalogy_calls = @ + 1]
    ELSE IF keys[i] # PyNone /\ keys[i].s \in get_available_websites
         THEN CollectLoop(sources, keys, env, i + 1,
                  [c EXCEPT !.articles = @ \o _convert_scraped_articles(env.scraped, 1, <<>>),
                            !.scrape_calls = Append(@, keys[i].s)])
    ELSE CollectLoop(sources, keys, env, i + 1, [c EXCEPT !.unsupported = Append(@, sources[i])])

\* collect_articles with the configuration's websites; keys are the results of
\* _resolve_source_identifier for the sources
collect_articles(websites, keys, env) ==
    LET configured_sources == IF websites = <<>> THEN <<S_hospitalogy>> ELSE websites
    IN  CollectLoop(configured_sources, keys, env, 1,
                    [op |-> "collect_articles", ret |-> NoCall, articles |-> <<>>,
                     sources |-> configured_sources, resolved |-> keys,
                     scrape_calls |-> <<>>, hospitalogy_calls |-> 0, unsupported |-> <<>>])

\* Inputs.  The websites are entries of a loaded configuration: trimmed and
\* not empty, a known key in any case or a URL.
MaxSources == 1
MaxArticles == 2
S_statnews == <<"s","t","a","t","n","e","w","s">>
S_healthcareitnews == <<"h","e","a","l","t","h","c","a","r","e","i","t","n","e","w","s">>
CollectSources ==
    { S_healthcareitnews,
      <<"H">> \o Tail(S_hospitalogy),
      S_https \o <<"w","w","w",".">> \o S_statnews \o <<".","c","o","m","/">>,
      S_https \o S_a_aa,
      S_https \o S_statnews \o <<".">> \o S_healthcareitnews \o <<".","a","a">> }
\* websites lists: every list of up to MaxSources sources, and lists that name
\* two sources, a scraper twice, and hospitalogy before a scraper
CollectWebsites ==
    StringsUpTo(CollectSources, MaxSources)
      \cup { <<S_healthcareitnews, S_https \o S_a_aa>>,
             <<S_healthcareitnews, S_healthcareitnews>>,
             <<(<<"H">> \o Tail(S_hospitalogy)), S_healthcareitnews>> }
S_article_url == S_https \o S_a_aa \o <<"/","x">>
S_Sample == <<"S","a","m","p","l","e">>
ScrapedArticles ==
    { [title |-> PyText(S_Sample, 0), url |-> PyStr(S_article_url),
       content |-> PyText(<<>>, MIN_ARTICLE_CONTENT)],
      [title |-> PyText(<<" ","A"," "," ","B","\n">>, 0),
       url |-> PyStr(<<" ">> \o S_article_url \o <<"\n">>),
       content |-> PyText(<<"a","\n"," ">>, MAX_ARTICLE_CONTENT + 1)],
      [title |-> PyText(<<" ", "\n">>, 0), url |-> PyStr(S_article_url),
       content |-> PyText(<<>>, MAX_ARTICLE_CONTENT)],
      [title |-> PyText(<<"T">>, 0), url |-> PyStr(S_article_url),
       content |-> PyText(<<"a"," "," ">>, MIN_ARTICLE_CONTENT - 3)],
      [title |-> PyNone, url |-> PyStr(S_http \o S_a_aa), content |-> PyNone] }
HospitalogyOutcomes ==
    { Ok(<<Article(<<"H","o","s","p","i","t","a","l"," ","n","e","w","s">>,
                   S_https \o S_a_aa \o <<"/","n","e","w","s">>,
                   PyText(<<>>, MIN_ARTICLE_CONTENT))>>),
      SecurityError("Rate limit exceeded. Please wait before trying again.") }
CollectArgs ==
    [websites : CollectWebsites,
     scraped : StringsUpTo(ScrapedArticles, MaxArticles),
     hospitalogy : HospitalogyOutcomes]

\* what _resolve_source_identifier can return for each source in turn
RECURSIVE Resolutions(_, _)
Resolutions(sources, available) ==
    IF sources = <<>> THEN {<<>>}
    ELSE {<<key>> \o rest : key \in _resolve_source_identifier(sources[1], available),
                            rest \in Resolutions(Tail(sources), available)}

\* one call collect_articles()
CollectArticles ==
    /\ collect_call = NoCall
    /\ LET sources == IF collect_arg.websites = <<>> THEN <<S_hospitalogy>>
                      ELSE collect_arg.websites
       IN  \E keys \in Resolutions(sources, get_available_websites) :
              collect_call' = collect_articles(collect_arg.websites, keys, collect_arg)
    /\ UNCHANGED <<collect_arg, saveVars, schedVars>>
    /\ UNCHANGED <<urlVars, fnVars, htmlVars, emailVars, fileVars, rateVars, httpVars, cfgVars, raceVars, ioVars>>

-----------------------------------------------------------------------------
(* NewsletterScheduler(config_path) (src/scheduler.py) and the             *)
(* NewsletterGenerator it constructs (src/newsletter_generator.py).  The   *)
(* environment is [file, env]: the file at config_path is                  *)
(* [exists, inside, large, utf8, json] -- whether it exists, lies in the   *)
(* project directory, is larger than 64 KB, decodes as UTF-8, and the      *)
(* value its text parses to as JSON (InvalidJson when it does not parse);  *)
(* env holds the environment variables.                                    *)

K_scheduling == <<"s","c","h","e","d","u","l","i","n","g">>
K_day_of_week == <<"d","a","y","_","o","f","_","w","e","e","k">>
K_time == <<"t","i","m","e">>
K_timezone == <<"t","i","m","e","z","o","n","e">>
K_email_settings == <<"e","m","a","i","l","_","s","e","t","t","i","n","g","s">>
K_openai_api_key == <<"o","p","e","n","a","i","_","a","p","i","_","k","e","y">>
K_from_email == <<"f","r","o","m","_","e","m","a","i","l">>
K_password == <<"p","a","s","s","w","o","r","d">>
K_to_emails == <<"t","o","_","e","m","a","i","l","s">>

InvalidJson == [ty |-> "invalid"]

\* scheduler.py, lines 44-50: the configuration used when the file is missing
DefaultSchedulerConfig ==
    PyDict(K_scheduling :>
             PyDict((K_day_of_week :> PyStr(<<"m","o","n","d","a","y">>)) @@ (K_time :> PyStr(<<"0","9",":","0","0">>))
                      @@ (K_timezone :> PyStr(<<"U","T","C">>))))

\* NewsletterScheduler.load_config: [ret, warnings]
scheduler_load_config(file) ==
    IF ~file.exists
    THEN [ret |-> Ok(DefaultSchedulerConfig), warnings |-> {"Config file not found. Using defaults."}]
    ELSE IF ~file.utf8
         THEN [ret |-> Raise("UnicodeDecodeError", "invalid start byte"), warnings |-> {}]
    ELSE IF file.json = InvalidJson
         THEN [ret |-> Raise("JSONDecodeError", "Expecting value"), warnings |-> {}]
    ELSE [ret |-> Ok(file.json), warnings |-> {}]

\* email_to.split(","), each part stripped, the empty ones left out
RECURSIVE SplitRecipients(_, _)
SplitRecipients(email_to, part) ==
    IF email_to = <<>> THEN (IF Strip(part) = <<>> THEN <<>> ELSE <<Strip(part)>>)
    ELSE IF email_to[1] = ","
         THEN (IF Strip(part) = <<>> THEN <<>> ELSE <<Strip(part)>>)
                \o SplitRecipients(Tail(email_to), <<>>)
         ELSE SplitRecipients(Tail(email_to), Append(part, email_to[1]))

\* lines 140-151: the sanitized recipients, or the first failure
RECURSIVE SanitizeRecipients(_, _, _)
SanitizeRecipients(parts, i, to_emails) ==
    IF i > Len(parts) THEN Ok(to_emails)
    ELSE LET checked == sanitize_email(PyStr(parts[i]))
         IN  IF ~checked.ok THEN Raise("ValueError", "Invalid recipient email")
             ELSE SanitizeRecipients(parts, i + 1, Append(to_emails, PyStr(checked.val)))

\* lines 165-169: the file's keys over the defaults, email_settings and
\* openai_api_key left out
MergeFileConfig(default_config, file_config) ==
    LET taken == DOMAIN file_config \ {K_email_settings, K_openai_api_key}
    IN  [k \in DOMAIN default_config \cup taken |->
            IF k \in taken THEN file_config[k] ELSE default_config[k]]

\* [str(site).strip() for site in websites if str(site).strip()]
CleanWebsites(websites) ==
    LET texts == [i \in 1..Len(websites) |-> Strip(PyStrOf(websites[i]))]
        NotEmpty(t) == t # <<>>
        kept == SelectSeq(texts, NotEmpty)
    IN  [i \in 1..Len(kept) |-> PyStr(kept[i])]

MIN_PASSWORD_LENGTH == 8
MIN_API_KEY_LENGTH == 20

\* NewsletterGenerator.load_config; the variables EMAIL_SMTP_SERVER,
\* EMAIL_SMTP_PORT, NEWSLETTER_NAME and ORGANIZATION_NAME are not set, and the
\* entries they fill (constants then) are left out of the result
generator_load_config(file, env) ==
    IF ~file.exists THEN Raise("FileNotFoundError", "Configuration file not found")
    ELSE IF ~file.inside
         THEN Raise("ValueError", "Configuration path must stay within the project directory")
    ELSE IF file.large THEN Raise("ValueError", "Configuration file exceeds 64KB limit")
    ELSE
    LET from_email == sanitize_email(PyStr(env.EMAIL_FROM))
        to_emails == SanitizeRecipients(SplitRecipients(env.EMAIL_TO, <<>>), 1, <<>>)
        email_settings ==
            PyDict((K_from_email :> PyStr(IF env.EMAIL_FROM = <<>> THEN <<>> ELSE from_email.val))
                     @@ (K_password :> PyStr(env.EMAIL_PASSWORD))
                     @@ (K_to_emails :> PyList(IF env.EMAIL_TO = <<>> THEN <<>> ELSE to_emails.val)))
        default_config ==
            (K_websites :> PyList(<<PyStr(S_hospitalogy)>>))
              @@ (K_email_settings :> email_settings)
        file_config == validate_json_config(file.json)
    IN  IF env.EMAIL_FROM # <<>> /\ ~from_email.ok
        THEN Raise("ValueError", "Invalid email configuration")
        ELSE IF env.EMAIL_PASSWORD # <<>> /\ Len(env.EMAIL_PASSWORD) < MIN_PASSWORD_LENGTH
             THEN Raise("ValueError", "Email password appears to be invalid")
        ELSE IF env.EMAIL_TO # <<>> /\ ~to_emails.ok THEN to_emails
        ELSE IF ~file.utf8 THEN Raise("ValueError", "Configuration file must be UTF-8 encoded")
        ELSE IF file.json = InvalidJson \/ ~file_config.ok
             THEN Raise("ValueError", "Configuration security error")
        ELSE LET merged == MergeFileConfig(default_config, file_config.val.d)
             IN  IF merged[K_websites].ty # "list"
                 THEN Raise("ValueError", "Config error: 'websites' must be a list")
                 ELSE Ok(PyDict([merged EXCEPT
                                   ![K_websites] = PyList(CleanWebsites(merged[K_websites].items))]))

\* NewsletterGenerator.__init__: the configuration, then the API key
NewsletterGenerator(file, env) ==
    LET config == generator_load_config(file, env)
    IN  IF ~config.ok THEN config
        ELSE IF env.OPENAI_API_KEY = <<>>
             THEN Raise("ValueError", "OPENAI_API_KEY not found in environment variables")
        ELSE IF Len(env.OPENAI_API_KEY) < MIN_API_KEY_LENGTH
             THEN Raise("ValueError", "OpenAI API key appears to be invalid")
        ELSE config

\* NewsletterScheduler.__init__
NewsletterScheduler(file, env) ==
    LET config == scheduler_load_config(file)
        generator == NewsletterGenerator(file, env)
    IN  IF ~config.ret.ok
        THEN [op |-> "NewsletterScheduler", ret |-> config.ret, warnings |-> config.warnings]
        ELSE IF ~generator.ok
             THEN [op |-> "NewsletterScheduler", ret |-> generator, warnings |-> config.warnings]
        ELSE [op |-> "NewsletterScheduler",
              ret |-> Ok([config |-> config.ret.val, generator |-> generator.val,
                          is_running |-> FALSE]),
              warnings |-> config.warnings]

\* Inputs
MissingFile == [exists |-> FALSE, inside |-> TRUE, large |-> FALSE, utf8 |-> TRUE,
                json |-> InvalidJson]
SchedulerJson ==
    { InvalidJson, PyList(<<>>), PyDict(<<>>),
      PyDict(K_websites :> PyList(<<PyStr(<<" ">> \o S_healthcareitnews)>>)),
      PyDict(K_websites :> PyList(<<PyStr(S_not_a_url)>>)),
      PyDict((K_scheduling :> PyDict(K_day_of_week :> PyStr(<<"f","r","i","d","a","y">>)))
               @@ (K_email_settings :> PyDict(K_password :> PyStr(<<"x">>)))
               @@ (K_openai_api_key :> PyStr(<<"k">>))) }
SchedulerFiles ==
    {MissingFile}
      \cup [exists : {TRUE}, inside : BOOLEAN, large : BOOLEAN, utf8 : BOOLEAN,
            json : SchedulerJson]
S_recipient == <<"a">> \o S_at_b_co
SchedulerEnvs ==
    [OPENAI_API_KEY : {<<>>, Repeat("k", MIN_API_KEY_LENGTH - 1), Repeat("k", MIN_API_KEY_LENGTH)},
     EMAIL_FROM : {<<>>, S_recipient, S_not_a_url},
     EMAIL_PASSWORD : {<<>>, Repeat("p", MIN_PASSWORD_LENGTH - 1), Repeat("p", MIN_PASSWORD_LENGTH)},
     EMAIL_TO : {<<>>, S_recipient \o <<",", " ">> \o S_recipient \o <<",">>,
                 S_recipient \o <<",">> \o S_not_a_url}]
SchedulerArgs == [file : SchedulerFiles, env : SchedulerEnvs]

\* one construction NewsletterScheduler(config_path)
ConstructScheduler ==
    /\ sched_call = NoCall
    /\ sched_call' = NewsletterScheduler(sched_arg.file, sched_arg.env)
    /\ UNCHANGED <<sched_arg, saveVars, collectVars>>
    /\ UNCHANGED <<urlVars, fnVars, htmlVars, emailVars, fileVars, rateVars, httpVars, cfgVars, raceVars, ioVars>>

-----------------------------------------------------------------------------
(* Each component has its own specification: its variables start as the    *)
(* component is constructed (a pure function's argument is drawn from its  *)
(* inputs), the other components' variables rest at Idle*.                 *)
IdleUrl   == url_arg = PyNone /\ url_ret = NoCall
IdleFn    == fn_arg = PyNone /\ fn_base = NoBaseDir /\ fn_ret = NoCall
IdleHtml  == html_arg = PyNone /\ html_ret = NoCall
IdleEmail == email_arg = PyNone /\ email_ret = NoCall
IdleFile  == fs = <<>> /\ base_exists = TRUE /\ outside = <<>> /\ file_call = NoCall
IdleRate  == requests = <<>> /\ now = 0 /\ rl_call = NoCall /\ calls = <<>> /\ admitted = NoneAdmitted
IdleHttp  == http_arg = PyNone /\ http_call = NoCall
IdleCfg   == cfg_arg = PyNone /\ cfg_ret = NoCall /\ cfg_log = {}
IdleRace  == threads = <<>> /\ mutex = "none" /\ window_lost = FALSE
IdleIo    == writer = NoCall /\ reader = NoCall
IdleSave  == save_arg = PyNone /\ save_call = NoCall
IdleCollect == collect_arg = PyNone /\ collect_call = NoCall
IdleSched == sched_arg = PyNone /\ sched_call = NoCall
IdleApp   == IdleSave /\ IdleCollect /\ IdleSched

InitUrl ==
    /\ url_arg \in UrlArgs /\ url_ret = NoCall
    /\ IdleFn /\ IdleHtml /\ IdleEmail /\ IdleFile /\ IdleRate /\ IdleHttp /\ IdleCfg /\ IdleRace /\ IdleIo /\ IdleApp
NextUrl == ValidateUrl
SpecUrl == InitUrl /\ [][NextUrl]_vars

InitFilename ==
    /\ fn_arg \in FilenameArgs /\ fn_base \in FilenameBaseDirs /\ fn_ret = NoCall
    /\ IdleUrl /\ IdleHtml /\ IdleEmail /\ IdleFile /\ IdleRate /\ IdleHttp /\ IdleCfg /\ IdleRace /\ IdleIo /\ IdleApp
NextFilename == ValidateFilename
SpecFilename == InitFilename /\ [][NextFilename]_vars

InitHtml ==
    /\ html_arg \in HtmlArgs /\ html_ret = NoCall
    /\ IdleUrl /\ IdleFn /\ IdleEmail /\ IdleFile /\ IdleRate /\ IdleHttp /\ IdleCfg /\ IdleRace /\ IdleIo /\ IdleApp
NextHtml == SanitizeHtml
SpecHtml == InitHtml /\ [][NextHtml]_vars

InitEmail ==
    /\ email_arg \in EmailArgs /\ email_ret = NoCall
    /\ IdleUrl /\ IdleFn /\ IdleHtml /\ IdleFile /\ IdleRate /\ IdleHttp /\ IdleCfg /\ IdleRace /\ IdleIo /\ IdleApp
NextEmail == SanitizeEmail
SpecEmail == InitEmail /\ [][NextEmail]_vars

InitFile ==
    /\ fs \in InitDirs /\ base_exists \in BOOLEAN /\ (~base_exists => fs = <<>>)
    /\ outside = OutsideData /\ file_call = NoCall
    /\ IdleUrl /\ IdleFn /\ IdleHtml /\ IdleEmail /\ IdleRate /\ IdleHttp /\ IdleCfg /\ IdleRace /\ IdleIo /\ IdleApp
NextFile == SafeReadFile \/ SafeWriteFile \/ ReadBack
SpecFile == InitFile /\ [][NextFile]_vars

InitIo ==
    /\ fs \in {S_a_txt :> [kind |-> "file", data |-> d] : d \in InitDatas}
    /\ base_exists = TRUE /\ outside = OutsideData /\ file_call = NoCall
    /\ \E content \in FileContents :
          writer = [pc |-> "start", filename |-> PyStr(S_a_txt), content |-> content,
                    max_size |-> PyNone, ret |-> NoCall,
                    before |-> World(fs, TRUE, OutsideData)]
    /\ reader = [pc |-> "start", filename |-> PyStr(S_a_txt), max_size |-> PyNone,
                 path |-> InBase(S_a_txt), ret |-> NoCall]
    /\ IdleUrl /\ IdleFn /\ IdleHtml /\ IdleEmail /\ IdleRate /\ IdleHttp /\ IdleCfg /\ IdleRace /\ IdleApp
NextIo == WriteOpen \/ WriteClose \/ ReadStat \/ ReadOpen
SpecIo == InitIo /\ [][NextIo]_vars

InitRate ==
    /\ IdleRate
    /\ IdleUrl /\ IdleFn /\ IdleHtml /\ IdleEmail /\ IdleFile /\ IdleHttp /\ IdleCfg /\ IdleRace /\ IdleIo /\ IdleApp
NextRate == IsAllowed \/ Tick
SpecRate == InitRate /\ [][NextRate]_vars

InitHttp ==
    /\ http_arg \in HttpArgs /\ http_call = NoCall
    /\ IdleUrl /\ IdleFn /\ IdleHtml /\ IdleEmail /\ IdleFile /\ IdleRate /\ IdleCfg /\ IdleRace /\ IdleIo /\ IdleApp
NextHttp == SafeGet
SpecHttp == InitHttp /\ [][NextHttp]_vars

InitConfig ==
    /\ cfg_arg \in ConfigArgs /\ cfg_ret = NoCall /\ cfg_log = {}
    /\ IdleUrl /\ IdleFn /\ IdleHtml /\ IdleEmail /\ IdleFile /\ IdleRate /\ IdleHttp /\ IdleRace /\ IdleIo /\ IdleApp
NextConfig == ValidateJsonConfig
SpecConfig == InitConfig /\ [][NextConfig]_vars

InitSave ==
    /\ save_arg \in SaveArgs /\ save_call = NoCall
    /\ IdleUrl /\ IdleFn /\ IdleHtml /\ IdleEmail /\ IdleFile /\ IdleRate /\ IdleHttp /\ IdleCfg /\ IdleRace /\ IdleIo
    /\ IdleCollect /\ IdleSched
NextSave == SaveNewsletter
SpecSave == InitSave /\ [][NextSave]_vars

InitCollect ==
    /\ collect_arg \in CollectArgs /\ collect_call = NoCall
    /\ IdleUrl /\ IdleFn /\ IdleHtml /\ IdleEmail /\ IdleFile /\ IdleRate /\ IdleHttp /\ IdleCfg /\ IdleRace /\ IdleIo
    /\ IdleSave /\ IdleSched
NextCollect == CollectArticles
SpecCollect == InitCollect /\ [][NextCollect]_vars

InitSched ==
    /\ sched_arg \in SchedulerArgs /\ sched_call = NoCall
    /\ IdleUrl /\ IdleFn /\ IdleHtml /\ IdleEmail /\ IdleFile /\ IdleRate /\ IdleHttp /\ IdleCfg /\ IdleRace /\ IdleIo
    /\ IdleSave /\ IdleCollect
NextSched == ConstructScheduler
SpecSched == InitSched /\ [][NextSched]_vars

InitRace ==
    /\ requests = <<>> /\ now = 0 /\ rl_call = NoCall /\ calls = <<>> /\ admitted = NoneAdmitted
    /\ threads = [th \in Threads |-> IdleThread]
    /\ mutex \in {"none", "free"} /\ window_lost = FALSE
    /\ IdleUrl /\ IdleFn /\ IdleHtml /\ IdleEmail /\ IdleFile /\ IdleHttp /\ IdleCfg /\ IdleIo /\ IdleApp
NextRace == Enter \/ Rebuild \/ Test \/ Create \/ Check \/ Load \/ Store
SpecRace == InitRace /\ [][NextRace]_vars

-----------------------------------------------------------------------------
(* The host component of a URL: the text between "://" and the first of    *)
(* ":", "/", "?", "#".                                                     *)
HostOf(url) ==
    LET start == IF StartsWith(url, S_https) THEN Len(S_https) + 1 ELSE Len(S_http) + 1
        stops == {i \in start..Len(url) : url[i] \in {":", "/", "?", "#"}}
        stop  == IF stops = {} THEN Len(url) + 1
                 ELSE CHOOSE i \in stops : \A j \in stops : i <= j
    IN  SubSeq(url, start, stop - 1)

\* C1: every URL that validate_url accepts is https, or http with the host
\* exactly localhost; an http URL with any other host is rejected.
C1_HttpOnlyLocalhost ==
    url_ret.ok =>
        \/ StartsWith(url_ret.val, S_https)
        \/ (StartsWith(url_ret.val, S_http) /\ HostOf(url_ret.val) = S_localhost)

\* the filename holds one of the three tokens the claim names
NamesTraversalToken(s) ==
    Contains(s, <<".", ".">>) \/ Contains(s, <<"/">>) \/ Contains(s, <<"\\">>)

-----------------------------------------------------------------------------
\* C3 as stated: every filename containing '..', '/' or '\\' fails with the
\* path-traversal failure, whatever its length.
C3_TraversalWhateverLength ==
    (fn_ret # NoCall /\ fn_arg.ty = "str" /\ NamesTraversalToken(fn_arg.s)) =>
        fn_ret = SecurityError("Path traversal detected in filename")

\* C3 (amended): every filename of trimmed length at most 255 containing '..',
\* '/' or '\\' fails with the path-traversal failure, whatever its extension and
\* other characters; a longer one fails with the too-long failure.
C3_TraversalWithinLength ==
    (fn_ret # NoCall /\ fn_arg.ty = "str" /\ NamesTraversalToken(fn_arg.s)) =>
        fn_ret = IF Len(Strip(fn_arg.s)) <= MAX_FILENAME_LENGTH
                 THEN SecurityError("Path traversal detected in filename")
                 ELSE SecurityError("Filename too long")

C3_Witness ==
    /\ fn_arg.ty = "str" /\ Contains(fn_arg.s, <<"\\">>)
    /\ ~Contains(fn_arg.s, <<"/">>) /\ ~Contains(fn_arg.s, <<".", ".">>)
    /\ StrLower(PathSuffix(Strip(fn_arg.s))) \in ALLOWED_EXTENSIONS
    /\ fn_ret = SecurityError("Path traversal detected in filename")

-----------------------------------------------------------------------------
HtmlEntities == {HtmlEntity[c] : c \in DOMAIN HtmlEntity}
BeginsAt(s, i, sub) ==
    /\ i + Len(sub) - 1 <= Len(s)
    /\ \A j \in 1..Len(sub) : s[i + j - 1] = sub[j]

\* C4: for every input of sanitize_html, string or not, the returned text holds
\* no literal '<', '>', '"' or single quote, every '&' in it begins an escape
\* entity, and it never contains '<script>'.
C4_OutputIsEscaped ==
    html_ret.ok =>
        /\ \A i \in 1..Len(html_ret.val) :
              /\ html_ret.val[i] \notin {"<", ">", "\"", "'"}
              /\ html_ret.val[i] = "&" => \E e \in HtmlEntities : BeginsAt(html_ret.val, i, e)
        /\ ~Contains(html_ret.val, S_script)

-----------------------------------------------------------------------------
ControlChars == {"\t", "\n", "\r", "\f"}
HasEmbeddedLineBreak(s) ==
    \E i \in 1..Len(s) :
        /\ s[i] \in {"\n", "\r"}
        /\ \E j \in 1..(i - 1) : s[j] \notin Whitespace
        /\ \E j \in (i + 1)..Len(s) : s[j] \notin Whitespace

\* C5: every value sanitize_email returns is the trimmed, lower-cased input, at
\* most 254 long, matches the email grammar and holds no CR, LF, other
\* whitespace or control character; an input with an embedded line break
\* fails; 'User+Tag@Domain.CO.UK' yields 'user+tag@domain.co.uk'.
C5_SanitizedEmail ==
    email_ret # NoCall =>
        /\ email_ret.ok =>
              /\ email_arg.ty = "str"
              /\ email_ret.val = StrLower(Strip(email_arg.s))
              /\ Len(email_ret.val) <= MAX_EMAIL_LENGTH
              /\ ReMatch(email_pattern, email_ret.val)
              /\ \A i \in 1..Len(email_ret.val) :
                    email_ret.val[i] \notin Whitespace \cup ControlChars
        /\ (email_arg.ty = "str" /\ HasEmbeddedLineBreak(email_arg.s)) => ~email_ret.ok
        /\ email_arg = PyStr(S_injection) => ~email_ret.ok
        /\ email_arg = PyStr(S_UserTag) => email_ret = Ok(S_usertag)

\* an accepted address that had to be trimmed (of a line break) and lower-cased
C5_Witness ==
    /\ email_ret.ok
    /\ \E i \in 1..Len(email_arg.s) : email_arg.s[i] = "\n"
    /\ \E i \in 1..Len(email_arg.s) : email_arg.s[i] \in Upper

-----------------------------------------------------------------------------
\* C2: every path a safe_read_file / safe_write_file call opens resolves inside
\* the base directory, and a filename whose resolved path lies outside it (a
\* symlink placed inside) is rejected before any open or mkdir: nothing is
\* opened, no directory is made, nothing inside or outside is changed.
C2_PathConfinement ==
    file_call.op # "none" =>
        /\ \A p \in file_call.opened : p.root = "base"
        /\ outside = OutsideData
        /\ file_call.before.escapes =>
              /\ ~file_call.ret.ok
              /\ file_call.opened = {}
              /\ ~file_call.made_dir
              /\ CurrentWorld = file_call.before.world

\* a write through a symlink that points outside the base directory, rejected
C2_Witness ==
    /\ file_call.op = "write"
    /\ file_call.before.escapes
    /\ file_call.ret = SecurityError("Path traversal detected")

-----------------------------------------------------------------------------
\* C8: safe_write_file(f, content) followed by safe_read_file(f) returns exactly
\* content, for every valid filename and every content of valid UTF-8 within
\* the ceiling, content with carriage returns included.
C8_RoundTrip ==
    file_call.op = "readback" => file_call.ret = Ok(file_call.content)

-----------------------------------------------------------------------------
\* the ceiling a caller asks for: max_size when passed, else the default
Ceiling(max_size) == IF max_size.ty = "none" THEN MAX_CONTENT_SIZE ELSE max_size.n

\* C9: safe_write_file measures content by its UTF-8 byte length: with a valid
\* filename it fails on size exactly when that length exceeds the ceiling
\* (default 10 MiB); a call failing on filename validation or on size creates
\* no file and no directory and leaves every existing file unchanged.
C9_ByteCeiling ==
    file_call.op = "write" =>
        LET validated == validate_filename(file_call.filename, BaseDir(file_call.before.world.fs))
            too_large == file_call.ret = SecurityError("Content too large")
        IN  /\ validated.ok =>
                 (too_large <=> ByteLen(file_call.content) > Ceiling(file_call.max_size))
            /\ (~validated.ok \/ too_large) =>
                 /\ CurrentWorld = file_call.before.world
                 /\ ~file_call.made_dir
                 /\ file_call.opened = {}

-----------------------------------------------------------------------------
\* C6: among the is_allowed calls for an identifier made while its window has
\* not expired (all less than time_window after the first of them), exactly
\* the first max_requests return True and every later one returns False.
C6_FirstNAllowed ==
    rl_call.op = "is_allowed" =>
        (rl_call.allowed <=> calls[rl_call.id].n <= MaxRequests)

\* a call denied in a window that the clock has moved into
C6_Witness ==
    /\ rl_call.op = "is_allowed" /\ ~rl_call.allowed
    /\ calls[rl_call.id].n = MaxRequests + 1
    /\ rl_call.at > calls[rl_call.id].first

\* C7: counters are independent per identifier: a call for one identifier,
\* allowed or denied, leaves the count and window start of every other
\* identifier's unexpired window as they were, and a call for an identifier is
\* allowed whenever that identifier has made fewer than max_requests calls in
\* its current window, however many calls the others made.
C7_IndependentCounters ==
    rl_call.op = "is_allowed" =>
        /\ \A b \in DOMAIN rl_call.before \ {rl_call.id} :
              rl_call.at - rl_call.before[b].first_request < TimeWindow =>
                  b \in DOMAIN requests /\ requests[b] = rl_call.before[b]
        /\ calls[rl_call.id].n <= MaxRequests => rl_call.allowed

\* a call allowed while the other identifier's window is used up
C7_Witness ==
    /\ rl_call.op = "is_allowed" /\ rl_call.allowed
    /\ \E b \in DOMAIN rl_call.before \ {rl_call.id} :
          /\ rl_call.at - rl_call.before[b].first_request < TimeWindow
          /\ rl_call.before[b].count = MaxRequests
          /\ calls[b].n > MaxRequests

-----------------------------------------------------------------------------
\* the bytes of the first k chunks
RECURSIVE SumChunks(_, _)
SumChunks(chunks, k) == IF k = 0 THEN 0 ELSE SumChunks(chunks, k - 1) + chunks[k]

\* the response arrived: the URL was valid, the transport and the status fine
ResponseArrived ==
    /\ http_call.op = "safe_get" /\ http_call.requested
    /\ http_arg.server.outcome = [transport |-> "ok", status |-> 200]

\* C10: a declared Content-Length above max_size fails safe_get before any
\* chunk is read; otherwise the streaming loop stops at the first chunk after
\* which the accumulated bytes exceed max_size, so the accumulated count never
\* exceeds max_size by more than one chunk, and a response returned
\* successfully has a body of at most max_size bytes.
C10_ResponseCeiling ==
    http_call.op = "safe_get" =>
        LET chunks == http_arg.server.chunks
            header == http_arg.server.content_length
            max_size == http_arg.max_size
            over == {k \in 1..Len(chunks) : SumChunks(chunks, k) > max_size}
        IN  /\ (ResponseArrived /\ header.ty = "int" /\ header.n > max_size) =>
                  ~http_call.ret.ok /\ http_call.chunks_read = 0
            /\ (ResponseArrived /\ (header \in {PyNone, PyStr(<<>>)}
                                       \/ (header.ty = "int" /\ header.n <= max_size))) =>
                  IF over = {}
                  THEN /\ http_call.ret.ok
                       /\ http_call.chunks_read = Len(chunks)
                       /\ http_call.ret.val.content = SumChunks(chunks, Len(chunks))
                  ELSE /\ ~http_call.ret.ok
                       /\ \A k \in over : http_call.chunks_read <= k
                       /\ http_call.chunks_read \in over
            /\ http_call.accumulated = SumChunks(chunks, http_call.chunks_read)
            /\ http_call.chunks_read > 0 =>
                  http_call.accumulated - chunks[http_call.chunks_read] <= max_size
            /\ http_call.ret.ok => http_call.ret.val.content <= max_size

\* a server that understates its length and is cut off before its last chunk
C10_Witness ==
    /\ ResponseArrived
    /\ http_arg.server.content_length = PyInt(0)
    /\ ~http_call.ret.ok
    /\ http_call.chunks_read > 1
    /\ http_call.chunks_read < Len(http_arg.server.chunks)
    /\ http_call.accumulated > http_arg.max_size

-----------------------------------------------------------------------------
\* C11: safe_get validates before it fetches: for a url that validate_url
\* rejects it fails with that validation failure and issues no request; a
\* request is issued only after validation succeeded, and only for the
\* validated (trimmed) URL.
C11_ValidateBeforeFetch ==
    http_call.op = "safe_get" =>
        LET checked == validate_url(http_arg.url)
        IN  /\ ~checked.ok => (http_call.ret = checked /\ http_call.sent = {})
            /\ http_call.sent # {} =>
                  /\ checked.ok
                  /\ http_call.sent = {Strip(http_arg.url.s)}

\* a request issued for a URL that had to be trimmed
C11_Witness ==
    /\ http_call.op = "safe_get"
    /\ http_call.sent # {}
    /\ http_call.sent # {http_arg.url.s}

-----------------------------------------------------------------------------
\* the string equals a known scraper key when case (and surrounding
\* whitespace, which the call trims) is ignored
EqualsKnownKeyIgnoringCase(s) ==
    LET t == Strip(s)
    IN  \E k \in KNOWN_WEBSITE_KEYS :
            Len(k) = Len(t) /\ \A i \in 1..Len(k) : ToLower(t[i]) = k[i]

\* an element the claim calls acceptable
AcceptableWebsite(e) ==
    \/ e.ty = "str" /\ EqualsKnownKeyIgnoringCase(e.s)
    \/ validate_url(e).ok

\* the call was made on a mapping with a 'websites' list
CalledOnWebsiteList ==
    /\ cfg_ret # NoCall
    /\ cfg_arg.ty = "dict"
    /\ K_websites \in DOMAIN cfg_arg.d
    /\ cfg_arg.d[K_websites].ty = "list"

\* C12: validate_json_config on a mapping with a 'websites' list succeeds
\* exactly when every element is a known scraper key (case ignored) or a value
\* validate_url accepts; on success the returned list has the same length and
\* order, each entry unchanged apart from trimming; an unacceptable element
\* makes the call fail with the URL validation failure of that element.
C12_WebsitesValidated ==
    CalledOnWebsiteList =>
        LET items == cfg_arg.d[K_websites].items
            bad == {i \in 1..Len(items) : ~AcceptableWebsite(items[i])}
        IN  /\ cfg_ret.ok <=> bad = {}
            /\ cfg_ret.ok =>
                  LET out == cfg_ret.val.d[K_websites]
                  IN  /\ out.ty = "list"
                      /\ Len(out.items) = Len(items)
                      /\ \A i \in 1..Len(items) : out.items[i] = PyStr(Strip(items[i].s))
            /\ ~cfg_ret.ok => \E i \in bad : cfg_ret = validate_url(items[i])

\* a list of a key written in another case with whitespace around it, and a URL
C12_Witness ==
    /\ CalledOnWebsiteList /\ cfg_ret.ok
    /\ \E i, j \in 1..Len(cfg_arg.d[K_websites].items) :
          LET items == cfg_arg.d[K_websites].items
          IN  /\ items[i].s # Strip(items[i].s)
              /\ Strip(items[i].s) \notin KNOWN_WEBSITE_KEYS
              /\ EqualsKnownKeyIgnoringCase(items[i].s)
              /\ validate_url(items[j]).ok

-----------------------------------------------------------------------------
\* C13: every key of the mapping validate_json_config returns is one of
\* websites, keywords, scheduling, newsletter_settings, payer_keywords,
\* innovation_keywords, for every input mapping.
C13_OnlyAllowedKeys ==
    (cfg_ret # NoCall /\ cfg_ret.ok) => DOMAIN cfg_ret.val.d \subseteq allowed_keys

-----------------------------------------------------------------------------
\* C20: every key returned by ScraperManager.get_available_websites() is
\* accepted as a 'websites' entry by validate_json_config: a configuration
\* naming an available scraper by key loads successfully.
C20_RegistryKeysAccepted ==
    (CalledOnWebsiteList
        /\ \A i \in 1..Len(cfg_arg.d[K_websites].items) :
               /\ cfg_arg.d[K_websites].items[i].ty = "str"
               /\ cfg_arg.d[K_websites].items[i].s \in get_available_websites)
    => cfg_ret.ok

-----------------------------------------------------------------------------
\* an outcome that is a normal return or the typed security failure
ReturnsOrSecurityError(ret) == ret.ok \/ ret.exc = "SecurityError"

\* C14: every failure of a core operation is the typed security failure: for
\* any argument and any answer of the environment, validate_url,
\* validate_filename, sanitize_email, validate_json_config, safe_read_file,
\* safe_write_file and safe_get either return normally or raise SecurityError.
C14_OnlySecurityError ==
    /\ url_ret # NoCall => ReturnsOrSecurityError(url_ret)
    /\ fn_ret # NoCall => ReturnsOrSecurityError(fn_ret)
    /\ email_ret # NoCall => ReturnsOrSecurityError(email_ret)
    /\ cfg_ret # NoCall => ReturnsOrSecurityError(cfg_ret)
    /\ file_call.op # "none" => ReturnsOrSecurityError(file_call.ret)
    /\ http_call.op = "safe_get" => ReturnsOrSecurityError(http_call.ret)

-----------------------------------------------------------------------------
\* URLs of the shape the claim describes: https with a domain host, or http on
\* localhost, with optional port and path
ShapedUrls ==
    {host \o port \o path :
        host \in {S_https \o S_a_aa, S_http \o S_localhost},
        port \in {<<>>, <<":", "1">>},
        path \in {<<>>, <<"/">>, <<"/", "a">>, <<"/", "a", "/">>}}
      \cup {S_https \o S_a_aa \o <<"/">> \o Repeat("a", MAX_URL_LENGTH - 13)}

\* C15: validate_url is the identity on accepted input: an accepted URL
\* without surrounding whitespace is returned exactly as given, the URLs of the
\* described shape are accepted, and validating the returned value again
\* returns it again.
C15_IdentityOnAccepted ==
    (url_ret # NoCall /\ url_arg.ty = "str") =>
        /\ (url_ret.ok /\ Strip(url_arg.s) = url_arg.s) => url_ret.val = url_arg.s
        /\ url_arg.s \in ShapedUrls => url_ret = Ok(url_arg.s)
        /\ url_ret.ok => validate_url(PyStr(url_ret.val)) = url_ret

\* an accepted localhost URL with port, and one with a path but no final slash
C15_Witness ==
    /\ url_ret.ok
    /\ url_arg.s \in { S_http \o S_localhost \o <<":", "1">>,
                        S_https \o S_a_aa \o <<"/", "a">> }
    /\ url_ret.val = url_arg.s

-----------------------------------------------------------------------------
BannedSchemes ==
    { <<"j","a","v","a","s","c","r","i","p","t",":">>, <<"f","i","l","e",":">>, <<"f","t","p",":">>, <<"d","a","t","a",":">>, <<"m","a","i","l","t","o",":">> }

\* C16: validate_url fails for every input whose scheme is javascript:, file:,
\* ftp:, data: or mailto:, and for every input whose trimmed length exceeds
\* 2000, the length failure taking precedence over the format failure.
C16_SchemesAndLengthRejected ==
    (url_ret # NoCall /\ url_arg.ty = "str") =>
        LET trimmed == Strip(url_arg.s)
        IN  /\ (\E scheme \in BannedSchemes : StartsWith(StrLower(trimmed), scheme)) => ~url_ret.ok
            /\ Len(trimmed) > MAX_URL_LENGTH => url_ret = SecurityError("URL too long")
            /\ (Len(trimmed) <= MAX_URL_LENGTH /\ ~url_ret.ok) => url_ret # SecurityError("URL too long")

\* a malformed URL that is also too long, and so fails on its length
C16_Witness ==
    /\ url_ret = SecurityError("URL too long")
    /\ StartsWith(url_arg.s, <<"f","t","p",":">>)
    /\ Len(url_arg.s) = MAX_URL_LENGTH + 1

-----------------------------------------------------------------------------
\* C17: a call to is_allowed that returns False does not mutate the limiter:
\* after a denied call the whole window map (the identifiers present, every
\* count and window start) is identical to what it was before the call.
C17_DeniedCallChangesNothing ==
    (rl_call.op = "is_allowed" /\ ~rl_call.allowed) => requests = rl_call.before

-----------------------------------------------------------------------------
\* C18: window expiry is inclusive at the boundary: a call made when
\* now - window_start equals time_window finds the old window expired, returns
\* True even if the old count had reached max_requests, and restarts the
\* window with count 1 and window_start = now; a call made earlier than that
\* still uses the old window.
C18_InclusiveExpiry ==
    (rl_call.op = "is_allowed" /\ rl_call.id \in DOMAIN rl_call.before) =>
        LET old == rl_call.before[rl_call.id]
        IN  IF rl_call.at - old.first_request >= TimeWindow
            THEN /\ rl_call.allowed
                 /\ requests[rl_call.id] = [count |-> 1, first_request |-> rl_call.at]
            ELSE /\ rl_call.allowed <=> old.count < MaxRequests
                 /\ requests[rl_call.id] =
                        [count |-> IF rl_call.allowed THEN old.count + 1 ELSE old.count,
                         first_request |-> old.first_request]

\* a call exactly at the boundary of a window whose count was used up
C18_Witness ==
    /\ rl_call.op = "is_allowed" /\ rl_call.allowed
    /\ rl_call.id \in DOMAIN rl_call.before
    /\ rl_call.at - rl_call.before[rl_call.id].first_request = TimeWindow
    /\ rl_call.before[rl_call.id].count = MaxRequests
    /\ requests[rl_call.id] = [count |-> 1, first_request |-> rl_call.at]

-----------------------------------------------------------------------------
\* Windows reserved device names (the part of a file name before its first dot)
ReservedDeviceNames == { <<"c","o","n">>, <<"p","r","n">>, <<"a","u","x">>, <<"n","u","l">> }
Stem(name) ==
    LET dots == {i \in 1..Len(name) : name[i] = "."}
    IN  IF dots = {} THEN name
        ELSE SubSeq(name, 1, (CHOOSE i \in dots : \A j \in dots : i <= j) - 1)
SafeNameChars == Lower \cup Upper \cup Digit \cup {"_", ".", "-"}

\* the classes of names the security test lists as invalid
InInvalidClass(s) ==
    LET name == Strip(s)
    IN  \/ NamesTraversalToken(name)
        \/ StrLower(PathSuffix(name)) \notin ALLOWED_EXTENSIONS
        \/ StrLower(Stem(name)) \in ReservedDeviceNames
        \/ name = <<>>
        \/ Len(name) > MAX_FILENAME_LENGTH
        \/ \E i \in 1..Len(name) : name[i] \notin SafeNameChars

\* C19: validate_filename with a base directory rejects every filename in the
\* classes the security test lists as invalid (traversal, disallowed
\* extension, reserved device name such as con.txt, empty, over 255 long,
\* embedded newline, shell metacharacters or spaces) and returns every other
\* name made only of [A-Za-z0-9_.-] with an allowed extension unchanged.
C19_TestClassesRejected ==
    (fn_ret # NoCall /\ fn_base.given /\ fn_arg.ty = "str") =>
        IF InInvalidClass(fn_arg.s) THEN ~fn_ret.ok
        ELSE fn_ret = Ok(Strip(fn_arg.s))

-----------------------------------------------------------------------------
\* C28: a ceiling passed explicitly is always honoured, m = 0 included: a
\* safe_write_file call that succeeds wrote content of at most m bytes, and a
\* safe_read_file call that succeeds read a file of at most m bytes; the
\* default applies only when no max_size is passed.
C28_ExplicitCeilingHonoured ==
    (file_call.op \in {"read", "write"} /\ file_call.max_size.ty = "int" /\ file_call.ret.ok) =>
        IF file_call.op = "write"
        THEN ByteLen(file_call.content) <= file_call.max_size.n
        ELSE \A p \in file_call.opened :
                LET data == file_call.before.world.fs[p.name].data
                IN  Len(data.body) + data.pad <= file_call.max_size.n

-----------------------------------------------------------------------------
\* C25: lazy expiry: right after an is_allowed call made at time now, every
\* window left in the map, of whichever identifier, has
\* now - window_start < time_window; a window disappears from the map only in
\* such a call and only when it has expired, never while time merely passes.
C25_LazyExpiry ==
    rl_call.op = "is_allowed" =>
        /\ now = rl_call.at =>
              \A k \in DOMAIN requests : rl_call.at - requests[k].first_request < TimeWindow
        /\ \A k \in DOMAIN rl_call.before \ DOMAIN requests :
              rl_call.at - rl_call.before[k].first_request >= TimeWindow
        /\ DOMAIN requests \subseteq DOMAIN rl_call.before \cup {rl_call.id}

\* a call for one identifier that dropped the expired window of another
C25_Witness ==
    /\ rl_call.op = "is_allowed"
    /\ \E k \in DOMAIN rl_call.before \ {rl_call.id} : k \notin DOMAIN requests
    /\ rl_call.id \in DOMAIN rl_call.before

-----------------------------------------------------------------------------
\* the calls for identifier k that returned True at the times from..to
RECURSIVE AdmittedIn(_, _, _)
AdmittedIn(k, from, to) ==
    IF from > to THEN 0
    ELSE (IF to \in 0..MaxTime THEN admitted[k][to] ELSE 0) + AdmittedIn(k, from, to - 1)

\* C26 as stated: for every identifier and every interval of length
\* time_window, aligned with a window start or not, at most max_requests
\* calls return True within the interval.
C26_BoundOverAnyInterval ==
    \A k \in Identifiers : \A t \in 0..MaxTime :
        AdmittedIn(k, t, t + TimeWindow - 1) <= MaxRequests

\* C26 (amended): at most max_requests calls return True within one window of
\* an identifier (the interval of length time_window beginning at its window
\* start), and fewer than 2 * max_requests within any interval of that length.
C26_BoundPerWindow ==
    \A k \in Identifiers :
        /\ k \in DOMAIN calls =>
              AdmittedIn(k, calls[k].first, calls[k].first + TimeWindow - 1) <= MaxRequests
        /\ \A t \in 0..MaxTime : AdmittedIn(k, t, t + TimeWindow - 1) < 2 * MaxRequests

\* an interval straddling two windows in which 2 * max_requests - 1 calls returned True
C26_Witness ==
    \E k \in Identifiers : \E t \in 0..MaxTime :
        /\ AdmittedIn(k, t, t + TimeWindow - 1) = 2 * MaxRequests - 1
        /\ k \in DOMAIN calls /\ t < calls[k].first

-----------------------------------------------------------------------------
\* C27: no call moves the window start of an unexpired window, and after a
\* call for an identifier was denied, the next call for it made at or after
\* window_start + time_window returns True and starts a fresh window with
\* count 1, however many denied calls were made in between.
C27_DenialNotProlonged ==
    (rl_call.op = "is_allowed" /\ rl_call.id \in DOMAIN rl_call.hist) =>
        LET window == rl_call.hist[rl_call.id]
        IN  /\ \A k \in DOMAIN rl_call.before :
                  rl_call.at - rl_call.before[k].first_request < TimeWindow =>
                      requests[k].first_request = rl_call.before[k].first_request
            /\ (window.n > MaxRequests /\ rl_call.at >= window.first + TimeWindow) =>
                  /\ rl_call.allowed
                  /\ requests[rl_call.id] = [count |-> 1, first_request |-> rl_call.at]

\* admitted again right at the end of a window in which two calls were denied
C27_Witness ==
    /\ rl_call.op = "is_allowed" /\ rl_call.allowed
    /\ rl_call.id \in DOMAIN rl_call.hist
    /\ rl_call.hist[rl_call.id].n = MaxRequests + 2
    /\ rl_call.at = rl_call.hist[rl_call.id].first + TimeWindow

-----------------------------------------------------------------------------
\* more calls returned True for k since its window started than max_requests
OverAdmitted(k) ==
    /\ k \in DOMAIN requests
    /\ AdmittedIn(k, requests[k].first_request, MaxTime) > MaxRequests

\* C22: RateLimiter needs single-owner access.  When every is_allowed call
\* runs under a lock, in every interleaving of the callers no identifier has
\* more than max_requests calls admitted in its window, the count of a window
\* is the number of calls admitted in it, and no created window is lost.
\* (Without the lock the opposite state is reachable: C22_Witness.)
C22_SingleOwner ==
    mutex # "none" =>
        /\ ~window_lost
        /\ \A k \in Identifiers : ~OverAdmitted(k)
        /\ \A th \in Threads : threads[th].pc # "idle" => mutex = th
        /\ (\A th \in Threads : threads[th].pc \in {"idle", "rebuild", "test"}) =>
              \A k \in DOMAIN requests :
                  requests[k].count = AdmittedIn(k, requests[k].first_request, MaxTime)

\* two callers without a lock: a window one caller created was discarded by
\* the other's rebuild, and more than max_requests calls were admitted
C22_Witness ==
    /\ mutex = "none"
    /\ window_lost
    /\ \E k \in Identifiers : OverAdmitted(k)

-----------------------------------------------------------------------------
\* C29: every URL safe_get retrieves a response from, the targets of the
\* redirects it follows included, is one validate_url accepts (https, or http
\* on localhost).
C29_FetchedWithinPolicy ==
    http_call # NoCall =>
        \A u \in http_call.fetched : validate_url(PyStr(u)).ok

-----------------------------------------------------------------------------
\* C21: a safe_read_file that runs while a safe_write_file on the same file
\* is under way returns what a read before the write returns or what a read
\* after the write returns, never an empty or partly written content.
C21_AllOrNothing ==
    reader.pc = "done" =>
        LET f == reader.filename
            written == safe_write_file(writer.before, writer.filename, writer.content,
                                       writer.max_size).world
        IN  reader.ret \in { safe_read_file(writer.before, f, reader.max_size).ret,
                             safe_read_file(written, f, reader.max_size).ret }

-----------------------------------------------------------------------------
\* the name save_newsletter works with, and whether it is a valid filename
SavedUnder(a) == IF Falsy(a.filename) THEN PyStr(DefaultFilename(a.today)) ELSE a.filename
ValidSaveName(a) ==
    /\ SavedUnder(a).ty = "str"
    /\ validate_filename(SavedUnder(a), NoBaseDir).ok

\* C23: save_newsletter hands a str content to safe_write_file exactly as it
\* was passed in (no HTML escaping, no rewriting) under the validated filename,
\* and attempts no write when the filename is not valid.
C23_PlainTextPreserved ==
    (save_call # NoCall /\ save_arg.content.ty = "str") =>
        /\ ValidSaveName(save_arg) =>
              /\ Len(save_call.handed) = 1
              /\ save_call.handed[1].content = Text(save_arg.content.s, 0)
              /\ save_call.handed[1].filename = Strip(SavedUnder(save_arg).s)
        /\ ~ValidSaveName(save_arg) =>
              /\ save_call.handed = <<>>
              /\ save_call.world = save_arg.dir
              /\ ~save_call.ret.ok

\* a content with markup characters was saved under a valid name
C23_Witness ==
    /\ save_call # NoCall /\ save_call.ret.ok
    /\ save_arg.content = PyStr(<<"<", "&", "\"">>)
    /\ save_arg.filename = PyStr(S_b_md)
    /\ save_call.handed # <<>>

-----------------------------------------------------------------------------
\* the keys of the sources that go to ScraperManager.scrape_website, in order
RECURSIVE RoutedKeys(_)
RoutedKeys(keys) ==
    IF keys = <<>> THEN <<>>
    ELSE (IF keys[1] # PyNone /\ keys[1].s # S_hospitalogy THEN <<keys[1].s>> ELSE <<>>)
           \o RoutedKeys(Tail(keys))

\* what the result holds when every routed source contributes `each` and
\* hospitalogy contributes `own`
RECURSIVE ExpectedArticles(_, _, _)
ExpectedArticles(keys, each, own) ==
    IF keys = <<>> THEN <<>>
    ELSE (IF keys[1] = PyNone THEN <<>>
          ELSE IF keys[1].s = S_hospitalogy THEN own ELSE each)
           \o ExpectedArticles(Tail(keys), each, own)

\* an article of the result: accepted URL, normalized title that is not empty,
\* content of 50 to 3000 characters
WellFormedArticle(a) ==
    /\ validate_url(PyStr(a.url)).ok
    /\ a.title # <<>>
    /\ _normalize_text(PyText(a.title, 0)).s = a.title
    /\ TextLen(a.content) >= MIN_ARTICLE_CONTENT
    /\ TextLen(a.content) <= MAX_ARTICLE_CONTENT

TitleAndUrl(articles) ==
    [i \in 1..Len(articles) |-> [title |-> articles[i].title, url |-> articles[i].url]]

\* a scraped article with an accepted URL, a title that normalizes to a text
\* that is not empty, and a normalized content of at least 50 characters
Convertible(scraped) ==
    /\ validate_url(scraped.url).ok
    /\ TextLen(_normalize_text(scraped.title)) > 0
    /\ TextLen(_normalize_text(scraped.content)) >= MIN_ARTICLE_CONTENT

\* ... and of at most 3000 characters
WithinAllLimits(scraped) ==
    /\ Convertible(scraped)
    /\ TextLen(_normalize_text(scraped.content)) <= MAX_ARTICLE_CONTENT

-----------------------------------------------------------------------------
\* C30: constructing NewsletterScheduler with a config path that does not
\* exist completes with the default scheduling configuration (monday, 09:00,
\* UTC), and the missing file is reported by a warning only.
C30_MissingConfigFallsBack ==
    (sched_call # NoCall /\ ~sched_arg.file.exists) =>
        /\ sched_call.ret.ok
        /\ sched_call.ret.val.config = DefaultSchedulerConfig
        /\ sched_call.warnings # {}

====
